---- MODULE Spec2Model ----
(***************************************************************************)
(* Model of the Slack MCP integration layer:                               *)
(*   - SlackBotAPIService (mcp/services/slack_bot_api.py): construction,   *)
(*     _handle_response, _safe_api_call, the per-operation parameter       *)
(*     builders and the dynamic upload resolver;                           *)
(*   - SlackTools (src/tools/tools.py): the tool facade, which validates,  *)
(*     awaits one adapter operation and reshapes or raises;                *)
(*   - the start-up of the MCP server (server.py).                         *)
(*                                                                         *)
(* Representation of Python values                                         *)
(*   str            a sequence of tokens; "" is << >>.  Strings whose      *)
(*                  characters matter (credential, file_source, filename)  *)
(*                  are sequences of one-character tokens.                 *)
(*   list           a sequence; [] is << >>.                               *)
(*   Optional[T]    None is << >>, a present value v is << v >>.           *)
(*   dict / kwargs  a function from key to value; {} is EmptyMap.          *)
(***************************************************************************)
EXTENDS Integers, Sequences, FiniteSets, TLC

VARIABLES
    env_token,    \* os.getenv("SLACK_BOT_TOKEN"): Optional[str]
    startup,      \* outcome of server start-up: "pending", "ok", or the exception raised
    bot_token,    \* SlackBotAPIService.bot_token once constructed: Optional[str]
    pc,           \* position of the running invocation
    op,           \* name of the adapter operation that is running
    args,         \* the arguments its caller passed, by parameter name
    pending,      \* the outbound call being awaited: [method, kwargs]
    outbound,     \* outbound calls issued by the running invocation, in order
    remote,       \* what the awaited client method produced
    result,       \* how the invocation ended
    upload,       \* the upload resolver's locals: source, filename, branch, ...
    fs,           \* the filesystem the existence checks look at
    tool,         \* name of the SlackTools function that is running, "none" without one
    tool_result,  \* how the SlackTools function ended
    current,      \* the task the event loop is running
    suspended     \* the frames of the tasks that wait at an await, by task

vars == <<env_token, startup, bot_token, pc, op, args, pending, outbound, remote, result, upload, fs,
          tool, tool_result, current, suspended>>

(***************************************************************************)
(* Python values                                                           *)
(***************************************************************************)
None == << >>
Some(v) == << v >>
IsNone(o) == o = << >>

\* Python truthiness of an Optional[str] / Optional[list]: None, "" and [] are falsy.
Truthy(o) == o # << >> /\ o[1] # << >>

EmptyMap == [k \in {} |-> << >>]

\* dict.get(key, default)
Get(m, k, default) == IF k \in DOMAIN m THEN m[k] ELSE default

\* dict.get(key) for a string-valued entry, as an Optional[str]
GetOpt(m, k) == IF k \in DOMAIN m THEN Some(m[k]) ELSE None

\* sequences over S of length at most n
SeqUpTo(S, n) == UNION { [1..k -> S] : k \in 0..n }

\* str.startswith
StartsWith(s, p) == Len(s) >= Len(p) /\ SubSeq(s, 1, Len(p)) = p

(***************************************************************************)
(* Construction: SlackBotAPIService.__init__ and the server start-up        *)
(***************************************************************************)
\* characters a credential is drawn from
TokenChars == {"x", "o", "b", "-"}
MaxTokenLen == 6
Tokens == SeqUpTo(TokenChars, MaxTokenLen)

\* the literal prefix 'xoxb-'
TokenPrefix == <<"x", "o", "x", "b", "-">>

\* a credential that passes the check; the adapter of Spec is built with it
ValidToken == TokenPrefix \o <<"x">>

\* Outcome of SlackBotAPIService(bot_token): "ok" or the exception raised.
\* bot_token.startswith on None raises AttributeError before the check is made.
ServiceInit(token) ==
    IF IsNone(token) THEN "AttributeError"
    ELSE IF ~StartsWith(token[1], TokenPrefix) THEN "ValueError"
    ELSE "ok"

\* a start-up that catches the failed construction and goes on to serve
\* without a tools object
ServerStartup_GoesOn ==
    /\ startup = "pending"
    /\ startup' = "ok"
    /\ bot_token' = IF ServiceInit(env_token) = "ok" THEN env_token ELSE None
    /\ UNCHANGED <<current, suspended, env_token, pc, op, args, pending, outbound, remote, result, upload, fs, tool, tool_result>>

\* server.py: bot_token = os.getenv(...); slack_tools = SlackTools(bot_token),
\* and SlackTools.__init__ constructs the service with the same argument.
ServerStartup ==
    /\ startup = "pending"
    /\ startup' = ServiceInit(env_token)
    /\ bot_token' = IF ServiceInit(env_token) = "ok" THEN env_token ELSE None
    /\ UNCHANGED <<current, suspended, env_token, pc, op, args, pending, outbound, remote, result, upload, fs, tool, tool_result>>

(***************************************************************************)
(* Response envelope and the remote client                                  *)
(***************************************************************************)
\* models/slack_types.py: the SlackResponse dataclass
SlackResponse(ok, data, error, warning) ==
    [ok |-> ok, data |-> data, error |-> error, warning |-> warning]

\* how an invocation ended: it returned an envelope or an exception escaped it
NoResult == [kind |-> "none", env |-> SlackResponse(FALSE, EmptyMap, None, None), exc |-> "none"]
Returned(env) == [kind |-> "returned", env |-> env, exc |-> "none"]
Raised(exc) == [kind |-> "raised", env |-> SlackResponse(FALSE, EmptyMap, None, None), exc |-> exc]

\* the methods of AsyncWebClient the adapter looks up by name
ClientMethods ==
    { "auth_test", "chat_postMessage", "chat_update", "chat_delete",
      "chat_scheduleMessage", "conversations_list", "conversations_info",
      "conversations_create", "conversations_join", "conversations_leave",
      "conversations_invite", "conversations_kick", "conversations_setTopic",
      "conversations_setPurpose", "conversations_archive",
      "conversations_unarchive", "conversations_history",
      "conversations_replies", "users_list", "users_info", "users_profile_get",
      "users_setPresence", "files_upload_v2", "files_list", "files_info",
      "files_delete", "reactions_add", "reactions_remove", "reactions_get",
      "pins_add", "pins_remove", "pins_list", "bookmarks_add",
      "bookmarks_remove", "bookmarks_list", "usergroups_create",
      "usergroups_list", "usergroups_update", "usergroups_disable",
      "team_info", "team_profile_get", "emoji_list", "dnd_info", "dnd_teamInfo" }

\* a name getattr(self.client, ...) does not find
UnknownMethod == "no_such_method"

\* Payloads every method can return without raising.  The client validates
\* every response and raises SlackApiError unless it carries ok = true, and
\* the Slack Web API puts an 'error' entry only into ok = false payloads.
BarePayloads ==
    { ("ok" :> TRUE),
      ("ok" :> TRUE) @@ ("warning" :> <<"missing_charset">>) }

\* what chat.postMessage, chat.update and chat.scheduleMessage answer
MessagePayloads ==
    { ("ok" :> TRUE) @@ ("channel" :> <<"C123">>) @@ ("ts" :> <<"1700000000.0001">>) }

\* The entry of a success payload that SlackTools navigates into, by client
\* method: an object (a dict) or a list of objects.  Such an entry is an
\* Optional: JSON null is None.
EntityKey(method) ==
    CASE method = "conversations_list" -> [kind |-> "list", key |-> "channels"]
      [] method \in {"conversations_info", "conversations_create"} ->
            [kind |-> "object", key |-> "channel"]
      [] method = "users_list" -> [kind |-> "list", key |-> "members"]
      [] method = "users_info" -> [kind |-> "object", key |-> "user"]
      [] method \in {"users_profile_get", "team_profile_get"} ->
            [kind |-> "object", key |-> "profile"]
      [] method \in {"files_upload_v2", "files_info"} -> [kind |-> "object", key |-> "file"]
      [] method = "files_list" -> [kind |-> "list", key |-> "files"]
      [] method = "reactions_get" -> [kind |-> "object", key |-> "message"]
      [] method \in {"conversations_history", "conversations_replies"} ->
            [kind |-> "list", key |-> "messages"]
      [] method = "pins_list" -> [kind |-> "list", key |-> "items"]
      [] method = "bookmarks_add" -> [kind |-> "object", key |-> "bookmark"]
      [] method = "bookmarks_list" -> [kind |-> "list", key |-> "bookmarks"]
      [] method \in {"usergroups_create", "usergroups_update"} ->
            [kind |-> "object", key |-> "usergroup"]
      [] method = "usergroups_list" -> [kind |-> "list", key |-> "usergroups"]
      [] method = "team_info" -> [kind |-> "object", key |-> "team"]
      [] method = "emoji_list" -> [kind |-> "object", key |-> "emoji"]
      [] OTHER -> [kind |-> "none", key |-> "none"]

\* channel objects: complete, without topic and purpose, and with a null topic
ChannelObjects ==
    { ("id" :> <<"C123">>) @@ ("name" :> <<"general">>)
          @@ ("topic" :> Some(("value" :> <<"news">>)))
          @@ ("purpose" :> Some(("value" :> <<"talk">>))),
      ("id" :> <<"C123">>) @@ ("name" :> <<"general">>),
      ("id" :> <<"C123">>) @@ ("name" :> <<"general">>) @@ ("topic" :> None) }

\* user objects: complete, without a profile, with a null profile, and a
\* deleted user with a null profile
UserObjects ==
    { ("id" :> <<"U1">>) @@ ("name" :> <<"ann">>)
          @@ ("profile" :> Some(("display_name" :> <<"Ann">>))),
      ("id" :> <<"U1">>) @@ ("name" :> <<"ann">>),
      ("id" :> <<"U1">>) @@ ("name" :> <<"ann">>) @@ ("profile" :> None),
      ("id" :> <<"U1">>) @@ ("deleted" :> TRUE) @@ ("profile" :> None) }

\* pinned items: a message, a file, neither, and a null message
PinItems ==
    { ("message" :> Some(("ts" :> <<"1700000000.0001">>))) @@ ("created_by" :> <<"U1">>),
      ("file" :> Some(("id" :> <<"F1">>))) @@ ("created_by" :> <<"U1">>),
      ("created_by" :> <<"U1">>),
      ("message" :> None) @@ ("created_by" :> <<"U1">>) }

\* the objects found under an entity key
Entities(key) ==
    CASE key \in {"channel", "channels"} -> ChannelObjects
      [] key \in {"user", "members"} -> UserObjects
      [] key = "items" -> PinItems
      [] OTHER -> { EmptyMap, ("id" :> <<"X1">>) @@ ("name" :> <<"n">>) }

\* the payloads of a method that carry its entity: null, an object, or a
\* list that is empty or holds one object
EntityPayloads(method) ==
    LET e == EntityKey(method)
    IN  CASE e.kind = "object" ->
                { ("ok" :> TRUE) @@ (e.key :> None) }
                \cup { ("ok" :> TRUE) @@ (e.key :> Some(x)) : x \in Entities(e.key) }
          [] e.kind = "list" ->
                { ("ok" :> TRUE) @@ (e.key :> None), ("ok" :> TRUE) @@ (e.key :> Some(<< >>)) }
                \cup { ("ok" :> TRUE) @@ (e.key :> Some(<< x >>)) : x \in Entities(e.key) }
          [] OTHER -> {}

\* the success payloads awaiting a given method can produce
PayloadsFor(method) ==
    BarePayloads
    \cup (IF method \in {"chat_postMessage", "chat_update", "chat_scheduleMessage"}
          THEN MessagePayloads ELSE {})
    \cup EntityPayloads(method)

\* every payload the client returns without raising
SuccessPayloads == UNION { PayloadsFor(m) : m \in ClientMethods }

\* Payloads carried by a SlackApiError: with and without an 'error' entry.
ErrorPayloads ==
    { ("ok" :> FALSE) @@ ("error" :> <<"ratelimited">>),
      ("ok" :> FALSE) @@ ("error" :> <<"channel_not_found">>),
      ("ok" :> FALSE) }

\* str(e) of the other exceptions; a timeout stringifies to "".
ExceptionTexts == { <<"Cannot connect to host slack.com">>, << >> }

\* What awaiting the client method can produce.  decoded = FALSE is a
\* SlackApiError whose response is the raw HTTP response (the body was not
\* JSON): that object has no mapping behind it and cannot be subscripted.
RemoteOutcomes ==
    [kind : {"payload"}, payload : SuccessPayloads, decoded : {TRUE}, msg : {<< >>}]
    \cup [kind : {"SlackApiError"}, payload : ErrorPayloads, decoded : {TRUE}, msg : {<< >>}]
    \cup [kind : {"SlackApiError"}, payload : {EmptyMap}, decoded : {FALSE}, msg : {<< >>}]
    \cup [kind : {"Exception"}, payload : {EmptyMap}, decoded : {TRUE}, msg : ExceptionTexts]

\* nothing has been awaited yet
NoOutcome == [kind |-> "none", payload |-> EmptyMap, decoded |-> TRUE, msg |-> << >>]

\* e.response['error'] raises when the response cannot be subscripted
SubscriptRaises(e) == ~e.decoded

\* e.response['error'] otherwise: the entry, or None when the payload has none
Subscript(e, key) == GetOpt(e.payload, key)

(***************************************************************************)
(* _handle_response and _safe_api_call                                      *)
(***************************************************************************)
\* _handle_response with the error read from the wrong key
_handle_response_ErrorFromWarning(response) ==
    SlackResponse(Get(response, "ok", FALSE), response,
                  GetOpt(response, "warning"), GetOpt(response, "warning"))

_handle_response(response) ==
    SlackResponse(Get(response, "ok", FALSE), response,
                  GetOpt(response, "error"), GetOpt(response, "warning"))

\* str(e) of the AttributeError getattr raises for an unknown method name
AttributeErrorText == <<"'AsyncWebClient' object has no attribute ">>

\* _safe_api_call whose generic handler leaves the error unset
SafeApiCallResult_DropsMessage(outcome) ==
    CASE outcome.kind = "payload" ->
            Returned(_handle_response(outcome.payload))
      [] outcome.kind = "SlackApiError" ->
            IF SubscriptRaises(outcome)
            THEN Raised("TypeError")
            ELSE Returned(SlackResponse(FALSE, outcome.payload, Subscript(outcome, "error"), None))
      [] outcome.kind = "Exception" ->
            Returned(SlackResponse(FALSE, EmptyMap, None, None))

\* The part of _safe_api_call after the await, for each thing the await can
\* produce.  The SlackApiError handler evaluates e.response['error'] (for the
\* log line) before it builds the envelope; an exception raised there is
\* raised inside the handler and the later except clause does not apply.
SafeApiCallResult(outcome) ==
    CASE outcome.kind = "payload" ->
            Returned(_handle_response(outcome.payload))
      [] outcome.kind = "SlackApiError" ->
            IF SubscriptRaises(outcome)
            THEN Raised("TypeError")
            ELSE Returned(SlackResponse(FALSE, outcome.payload, Subscript(outcome, "error"), None))
      [] outcome.kind = "Exception" ->
            Returned(SlackResponse(FALSE, EmptyMap, Some(outcome.msg), None))

\* the outbound call as the log records it
OutCall(method, kwargs) == [method |-> method, kwargs |-> kwargs]
NoCall == OutCall("none", EmptyMap)

\* _safe_api_call that issues the call a second time
SafeApiCallStart_Repeats(method_name, kwargs, log) ==
    IF method_name \in ClientMethods
    THEN /\ pc' = "calling"
         /\ pending' = OutCall(method_name, kwargs)
         /\ outbound' = log \o << OutCall(method_name, kwargs), OutCall(method_name, kwargs) >>
         /\ remote' = NoOutcome
         /\ result' = NoResult
    ELSE /\ pc' = "done"
         /\ pending' = NoCall
         /\ outbound' = log
         /\ remote' = NoOutcome
         /\ result' = Returned(SlackResponse(FALSE, EmptyMap,
                                 Some(AttributeErrorText \o <<method_name>>), None))

\* _safe_api_call that looks the method up before its try: the failed lookup
\* leaves it as an AttributeError
SafeApiCallStart_LookupOutsideTry(method_name, kwargs, log) ==
    IF method_name \in ClientMethods
    THEN /\ pc' = "calling"
         /\ pending' = OutCall(method_name, kwargs)
         /\ outbound' = Append(log, OutCall(method_name, kwargs))
         /\ remote' = NoOutcome
         /\ result' = NoResult
    ELSE /\ pc' = "done"
         /\ pending' = NoCall
         /\ outbound' = log
         /\ remote' = NoOutcome
         /\ result' = Raised("AttributeError")

\* The part of _safe_api_call up to the await: the dynamic lookup, then the
\* one call.  A failed lookup is an AttributeError caught by the generic
\* handler, and no call is made.
SafeApiCallStart(method_name, kwargs, log) ==
    IF method_name \in ClientMethods
    THEN /\ pc' = "calling"
         /\ pending' = OutCall(method_name, kwargs)
         /\ outbound' = Append(log, OutCall(method_name, kwargs))
         /\ remote' = NoOutcome
         /\ result' = NoResult
    ELSE /\ pc' = "done"
         /\ pending' = NoCall
         /\ outbound' = log
         /\ remote' = NoOutcome
         /\ result' = Returned(SlackResponse(FALSE, EmptyMap,
                                 Some(AttributeErrorText \o <<method_name>>), None))

(***************************************************************************)
(* SlackTools (src/tools/tools.py): what a tool function does with the      *)
(* envelope its adapter operation returned                                  *)
(***************************************************************************)
\* The functions of SlackTools: <<function, adapter operation it awaits,
\* text its ValueError puts before the envelope's error>>
SlackTools ==
    {
      <<"test_slack_auth", "test_auth", <<"Authentication failed: ">>>>,
      <<"send_slack_message", "send_message", <<"Failed to send message: ">>>>,
      <<"update_slack_message", "update_message", <<"Failed to update message: ">>>>,
      <<"delete_slack_message", "delete_message", <<"Failed to delete message: ">>>>,
      <<"schedule_slack_message", "schedule_message", <<"Failed to schedule message: ">>>>,
      <<"list_slack_channels", "list_channels", <<"Failed to list channels: ">>>>,
      <<"get_slack_channel_info", "get_channel_info", <<"Failed to get channel info: ">>>>,
      <<"create_slack_channel", "create_channel", <<"Failed to create channel: ">>>>,
      <<"join_slack_channel", "join_channel", <<"Failed to join channel: ">>>>,
      <<"leave_slack_channel", "leave_channel", <<"Failed to leave channel: ">>>>,
      <<"invite_to_slack_channel", "invite_to_channel", <<"Failed to invite users to channel: ">>>>,
      <<"kick_from_slack_channel", "kick_from_channel", <<"Failed to remove user from channel: ">>>>,
      <<"set_slack_channel_topic", "set_channel_topic", <<"Failed to set channel topic: ">>>>,
      <<"set_slack_channel_purpose", "set_channel_purpose", <<"Failed to set channel purpose: ">>>>,
      <<"archive_slack_channel", "archive_channel", <<"Failed to archive channel: ">>>>,
      <<"unarchive_slack_channel", "unarchive_channel", <<"Failed to unarchive channel: ">>>>,
      <<"list_slack_users", "list_users", <<"Failed to list users: ">>>>,
      <<"get_slack_user_info", "get_user_info", <<"Failed to get user info: ">>>>,
      <<"get_slack_user_profile", "get_user_profile", <<"Failed to get user profile: ">>>>,
      <<"set_slack_presence", "set_user_presence", <<"Failed to set presence: ">>>>,
      <<"upload_slack_file", "upload_file", <<"Failed to upload file: ">>>>,
      <<"list_slack_files", "list_files", <<"Failed to list files: ">>>>,
      <<"get_slack_file_info", "get_file_info", <<"Failed to get file info: ">>>>,
      <<"delete_slack_file", "delete_file", <<"Failed to delete file: ">>>>,
      <<"add_slack_reaction", "add_reaction", <<"Failed to add reaction: ">>>>,
      <<"remove_slack_reaction", "remove_reaction", <<"Failed to remove reaction: ">>>>,
      <<"get_slack_reactions", "get_reactions", <<"Failed to get reactions: ">>>>,
      <<"get_slack_channel_history", "get_channel_history", <<"Failed to get channel history: ">>>>,
      <<"get_slack_thread_replies", "get_thread_replies", <<"Failed to get thread replies: ">>>>,
      <<"pin_slack_message", "pin_message", <<"Failed to pin message: ">>>>,
      <<"unpin_slack_message", "unpin_message", <<"Failed to unpin message: ">>>>,
      <<"list_slack_pins", "list_pins", <<"Failed to list pins: ">>>>,
      <<"add_slack_bookmark", "add_bookmark", <<"Failed to add bookmark: ">>>>,
      <<"remove_slack_bookmark", "remove_bookmark", <<"Failed to remove bookmark: ">>>>,
      <<"list_slack_bookmarks", "list_bookmarks", <<"Failed to list bookmarks: ">>>>,
      <<"create_slack_usergroup", "create_usergroup", <<"Failed to create usergroup: ">>>>,
      <<"list_slack_usergroups", "list_usergroups", <<"Failed to list usergroups: ">>>>,
      <<"update_slack_usergroup", "update_usergroup", <<"Failed to update usergroup: ">>>>,
      <<"disable_slack_usergroup", "disable_usergroup", <<"Failed to disable usergroup: ">>>>,
      <<"get_slack_team_info", "get_team_info", <<"Failed to get team info: ">>>>,
      <<"get_slack_team_profile", "get_team_profile", <<"Failed to get team profile: ">>>>,
      <<"list_slack_emoji", "list_emoji", <<"Failed to list emoji: ">>>>,
      <<"get_slack_dnd_info", "get_dnd_info", <<"Failed to get DND info: ">>>>,
      <<"get_slack_team_dnd_info", "get_dnd_team_info", <<"Failed to get team DND info: ">>>> }

ToolNames == { f[1] : f \in SlackTools }

\* the adapter operation a tool function awaits
ServiceOp(t) == (CHOOSE f \in SlackTools : f[1] = t)[2]

\* the text before {result.error} in the function's ValueError
FailureContext(t) == (CHOOSE f \in SlackTools : f[1] = t)[3]

\* f"{result.error}": None is formatted as the text None
Format(error) == IF IsNone(error) THEN <<"None">> ELSE error[1]

\* how a tool function ended: it returned a value or raised
NoToolResult == [kind |-> "none", value |-> EmptyMap, exc |-> "none", msg |-> << >>]
ToolReturned(value) == [kind |-> "returned", value |-> value, exc |-> "none", msg |-> << >>]
ToolRaised(exc, msg) == [kind |-> "raised", value |-> EmptyMap, exc |-> exc, msg |-> msg]

\* The entry of result.data a tool function navigates into, read with
\* result.data.get(key, {}) or result.data.get(key, []): the default applies
\* to a missing entry only.
Root(t) ==
    CASE t = "list_slack_channels" ->
            [kind |-> "list", key |-> "channels"]
      [] t \in {"get_slack_channel_info", "create_slack_channel"} ->
            [kind |-> "object", key |-> "channel"]
      [] t = "list_slack_users" ->
            [kind |-> "list", key |-> "members"]
      [] t = "get_slack_user_info" ->
            [kind |-> "object", key |-> "user"]
      [] t \in {"get_slack_user_profile", "get_slack_team_profile"} ->
            [kind |-> "object", key |-> "profile"]
      [] t \in {"upload_slack_file", "get_slack_file_info"} ->
            [kind |-> "object", key |-> "file"]
      [] t = "list_slack_files" ->
            [kind |-> "list", key |-> "files"]
      [] t = "get_slack_reactions" ->
            [kind |-> "object", key |-> "message"]
      [] t \in {"get_slack_channel_history", "get_slack_thread_replies"} ->
            [kind |-> "list", key |-> "messages"]
      [] t = "list_slack_pins" ->
            [kind |-> "list", key |-> "items"]
      [] t = "add_slack_bookmark" ->
            [kind |-> "object", key |-> "bookmark"]
      [] t = "list_slack_bookmarks" ->
            [kind |-> "list", key |-> "bookmarks"]
      [] t \in {"create_slack_usergroup", "update_slack_usergroup"} ->
            [kind |-> "object", key |-> "usergroup"]
      [] t = "list_slack_usergroups" ->
            [kind |-> "list", key |-> "usergroups"]
      [] t = "get_slack_team_info" ->
            [kind |-> "object", key |-> "team"]
      [] t = "list_slack_emoji" ->
            [kind |-> "object", key |-> "emoji"]
      [] OTHER -> [kind |-> "none", key |-> "none"]

\* the entries of an object that are read with obj.get(key, {}).get(...)
Chained(t) ==
    CASE t \in {"list_slack_channels", "get_slack_channel_info"} -> {"topic", "purpose"}
      [] t \in {"list_slack_users", "get_slack_user_info"} -> {"profile"}
      [] OTHER -> {}

\* list_slack_users: "if not user.get('deleted', False)" drops the element
\* before its dict is built
Skipped(t, obj) == t = "list_slack_users" /\ Get(obj, "deleted", FALSE)

\* Building the result dict from one object raises AttributeError when a
\* chained entry is present and None.  list_slack_pins subscripts
\* item["message"], or else item["file"], when the key is present.
ObjectRaises(t, obj) ==
    IF t = "list_slack_pins"
    THEN IF "message" \in DOMAIN obj THEN IsNone(obj["message"])
         ELSE IF "file" \in DOMAIN obj THEN IsNone(obj["file"])
         ELSE FALSE
    ELSE \E k \in Chained(t) \cap DOMAIN obj : IsNone(obj[k])

\* The exception the success branch of a tool function raises while it
\* builds its result, "none" when it builds it.  None.get and None.items
\* raise AttributeError, iterating None raises TypeError.
ReshapeRaises(t, data) ==
    LET r == Root(t)
    IN  CASE r.kind = "object" ->
                LET x == Get(data, r.key, Some(EmptyMap))
                IN  IF IsNone(x) THEN "AttributeError"
                    ELSE IF ObjectRaises(t, x[1]) THEN "AttributeError"
                    ELSE "none"
          [] r.kind = "list" ->
                LET x == Get(data, r.key, Some(<< >>))
                IN  IF IsNone(x) THEN "TypeError"
                    ELSE IF \E i \in 1..Len(x[1]) :
                                ~Skipped(t, x[1][i]) /\ ObjectRaises(t, x[1][i])
                         THEN "AttributeError"
                    ELSE "none"
          [] OTHER -> "none"

\* obj.get(key, {}).get("value", "")
ChainedValue(obj, key) == Get(Get(obj, key, Some(EmptyMap))[1], "value", << >>)

\* the dict list_slack_channels and get_slack_channel_info build for a channel
ChannelDict(ch) ==
    ("id" :> GetOpt(ch, "id")) @@ ("name" :> GetOpt(ch, "name"))
    @@ ("is_private" :> Get(ch, "is_private", FALSE))
    @@ ("is_member" :> Get(ch, "is_member", FALSE))
    @@ ("topic" :> ChainedValue(ch, "topic"))
    @@ ("purpose" :> ChainedValue(ch, "purpose"))
    @@ ("member_count" :> Get(ch, "num_members", 0))
    @@ ("created" :> GetOpt(ch, "created"))
    @@ ("is_archived" :> Get(ch, "is_archived", FALSE))

\* the dict list_slack_users builds for a user
UserDict(user) ==
    LET profile == Get(user, "profile", Some(EmptyMap))[1]
    IN  ("id" :> GetOpt(user, "id")) @@ ("name" :> GetOpt(user, "name"))
        @@ ("real_name" :> Get(user, "real_name", << >>))
        @@ ("display_name" :> Get(profile, "display_name", << >>))
        @@ ("email" :> Get(profile, "email", << >>))
        @@ ("is_bot" :> Get(user, "is_bot", FALSE))
        @@ ("is_admin" :> Get(user, "is_admin", FALSE))
        @@ ("status_text" :> Get(profile, "status_text", << >>))
        @@ ("status_emoji" :> Get(profile, "status_emoji", << >>))
        @@ ("timezone" :> Get(user, "tz", << >>))

\* [f(x) for x in l]
MapSeq(l, f(_)) == [i \in 1..Len(l) |-> f(l[i])]

\* The value a tool function returns for an envelope with ok = true, given
\* that building it does not raise.  The functions that are not listed
\* return a fixed success dict or one more flat dict of .get() reads; for
\* them the model keeps the success flag only.
Reshape(t, data) ==
    CASE t = "test_slack_auth" ->
            ("authenticated" :> TRUE)
            @@ ("bot_user" :> Get(data, "user", <<"Unknown">>))
            @@ ("team" :> Get(data, "team", <<"Unknown">>))
            @@ ("user_id" :> GetOpt(data, "user_id"))
            @@ ("team_id" :> GetOpt(data, "team_id"))
      [] t = "send_slack_message" ->
            ("success" :> TRUE) @@ ("channel" :> GetOpt(data, "channel"))
            @@ ("timestamp" :> GetOpt(data, "ts"))
            @@ ("message" :> <<"Message sent successfully">>)
      [] t = "update_slack_message" ->
            ("success" :> TRUE) @@ ("channel" :> GetOpt(data, "channel"))
            @@ ("timestamp" :> GetOpt(data, "ts"))
            @@ ("message" :> <<"Message updated successfully">>)
      [] t = "schedule_slack_message" ->
            ("success" :> TRUE)
            @@ ("scheduled_message_id" :> GetOpt(data, "scheduled_message_id"))
            @@ ("channel" :> GetOpt(data, "channel"))
            @@ ("post_at" :> GetOpt(data, "post_at"))
            @@ ("message" :> <<"Message scheduled successfully">>)
      [] t = "list_slack_channels" ->
            MapSeq(Get(data, "channels", Some(<< >>))[1], ChannelDict)
      [] t = "get_slack_channel_info" ->
            LET ch == Get(data, "channel", Some(EmptyMap))[1]
            IN  ChannelDict(ch) @@ ("creator" :> GetOpt(ch, "creator"))
      [] t = "list_slack_users" ->
            MapSeq(SelectSeq(Get(data, "members", Some(<< >>))[1],
                             LAMBDA user : ~Get(user, "deleted", FALSE)),
                   UserDict)
      [] t = "upload_slack_file" ->
            LET file_data == Get(data, "file", Some(EmptyMap))[1]
            IN  ("success" :> TRUE) @@ ("file_id" :> GetOpt(file_data, "id"))
                @@ ("filename" :> GetOpt(file_data, "name"))
                @@ ("size" :> GetOpt(file_data, "size"))
                @@ ("url" :> GetOpt(file_data, "url_private"))
                @@ ("message" :> <<"File uploaded successfully">>)
      [] OTHER -> ("success" :> TRUE)

\* a tool function that reports every failure without the envelope's error
FacadeResult_DropsError(t, r) ==
    IF t = "none" THEN NoToolResult
    ELSE IF r.kind = "raised" THEN ToolRaised(r.exc, << >>)
    ELSE IF r.env.ok
         THEN IF ReshapeRaises(t, r.env.data) # "none"
              THEN ToolRaised(ReshapeRaises(t, r.env.data), << >>)
              ELSE ToolReturned(Reshape(t, r.env.data))
    ELSE ToolRaised("ValueError", FailureContext(t))

\* The part of a tool function after its await, applied to how the adapter
\* operation ended: an exception that escaped the adapter passes through,
\* "if result.ok" returns the reshaped value (or raises while building it),
\* and the else branch raises ValueError(context + error).
FacadeResult(t, r) ==
    IF t = "none" THEN NoToolResult
    ELSE IF r.kind = "raised" THEN ToolRaised(r.exc, << >>)
    ELSE IF r.env.ok
         THEN IF ReshapeRaises(t, r.env.data) # "none"
              THEN ToolRaised(ReshapeRaises(t, r.env.data), << >>)
              ELSE ToolReturned(Reshape(t, r.env.data))
    ELSE ToolRaised("ValueError", FailureContext(t) \o Format(r.env.error))

\* The adapter operation was entered from tool function t ("none": it was
\* called directly); when the operation has ended in the same step, so has
\* the tool function.
Awaited(t) ==
    /\ tool' = t
    /\ tool_result' = IF pc' = "done" THEN FacadeResult(t, result') ELSE NoToolResult

(***************************************************************************)
(* Strings: urllib.parse.urlparse, os.path.basename                         *)
(***************************************************************************)
Contains(s, c) == \E i \in 1..Len(s) : s[i] = c

\* str.find from position start (1-based); 0 when there is none
FindFrom(s, C, start) ==
    IF \E i \in start..Len(s) : s[i] \in C
    THEN CHOOSE i \in start..Len(s) : s[i] \in C /\ \A j \in start..(i-1) : s[j] \notin C
    ELSE 0

\* str.rfind; 0 when there is none
RFind(s, c) ==
    IF Contains(s, c)
    THEN CHOOSE i \in 1..Len(s) : s[i] = c /\ \A j \in (i+1)..Len(s) : s[j] # c
    ELSE 0

\* the characters of the modelled strings that urlsplit accepts in a scheme
Letters == {"h", "a", "b", "c"}
SchemeChars == Letters \cup {"."}

\* urlsplit: scheme up to the first ':' when every character before it is a
\* scheme character and the first is a letter; netloc when the rest begins
\* with '//', up to the next '/', '?' or '#'; ValueError for an unbalanced
\* bracket in the netloc; the path is cut at '#' and then at '?'.
urlparse(url) ==
    LET i == FindFrom(url, {":"}, 1)
        hasScheme == /\ i > 1
                     /\ url[1] \in Letters
                     /\ \A j \in 1..(i-1) : url[j] \in SchemeChars
        scheme == IF hasScheme THEN SubSeq(url, 1, i-1) ELSE << >>
        rest == IF hasScheme THEN SubSeq(url, i+1, Len(url)) ELSE url
        hasNetloc == Len(rest) >= 2 /\ rest[1] = "/" /\ rest[2] = "/"
        d == FindFrom(rest, {"/", "?", "#"}, 3)
        delim == IF d = 0 THEN Len(rest) + 1 ELSE d
        netloc == IF hasNetloc THEN SubSeq(rest, 3, delim-1) ELSE << >>
        after == IF hasNetloc THEN SubSeq(rest, delim, Len(rest)) ELSE rest
        f == FindFrom(after, {"#"}, 1)
        nofrag == IF f = 0 THEN after ELSE SubSeq(after, 1, f-1)
        q == FindFrom(nofrag, {"?"}, 1)
        path == IF q = 0 THEN nofrag ELSE SubSeq(nofrag, 1, q-1)
    IN  [raises |-> hasNetloc /\ (Contains(netloc, "[") # Contains(netloc, "]")),
         scheme |-> scheme, netloc |-> netloc, path |-> path]

\* _is_url: all([scheme, netloc]); the bare except turns a parse error into False
_is_url(path) ==
    LET parsed == urlparse(path)
    IN  IF parsed.raises THEN FALSE
        ELSE parsed.scheme # << >> /\ parsed.netloc # << >>

\* os.path.basename: what follows the last '/'
basename(p) == SubSeq(p, RFind(p, "/") + 1, Len(p))

(***************************************************************************)
(* Filesystem: os.path.isfile and pathlib.Path.exists                       *)
(***************************************************************************)
RECURSIVE SplitSlash(_)
\* str.split('/')
SplitSlash(p) ==
    LET i == FindFrom(p, {"/"}, 1)
    IN  IF i = 0 THEN << p >>
        ELSE << SubSeq(p, 1, i-1) >> \o SplitSlash(SubSeq(p, i+1, Len(p)))

\* the names a path walks through: empty and '.' components name nothing
Components(p) == SelectSeq(SplitSlash(p), LAMBDA c : c # << >> /\ c # <<".">>)

\* the entry a path string resolves to
Key(p) == [abs |-> Len(p) > 0 /\ p[1] = "/", comps |-> Components(p)]

RECURSIVE JoinSlash(_)
JoinSlash(comps) ==
    IF comps = << >> THEN << >>
    ELSE IF Len(comps) = 1 THEN comps[1]
    ELSE comps[1] \o <<"/">> \o JoinSlash(Tail(comps))

\* str(pathlib.Path(p)): repeated and trailing slashes and '.' components are
\* dropped, and the empty path becomes '.'
PurePath(p) ==
    LET k == Key(p)
    IN  IF k.abs THEN <<"/">> \o JoinSlash(k.comps)
        ELSE IF k.comps = << >> THEN <<".">>
        ELSE JoinSlash(k.comps)

\* a token standing for a run of characters longer than the filesystem
\* allows in one name (text content is usually that long)
LongRun == "xxxxxxxx...(more characters than a file name may have)"
TooLong(comp) == Contains(comp, LongRun)

\* os.stat: the kind of the entry, or the errno.  The empty path names
\* nothing; a name over the limit is ENAMETOOLONG; a regular file followed by
\* '/' is ENOTDIR; under a directory without search permission every lookup
\* is EACCES.
os_stat(f, p) ==
    IF p = << >> THEN "ENOENT"
    ELSE IF Key(p).comps = << >> THEN "dir"
    ELSE IF \E i \in 1..Len(Key(p).comps) : TooLong(Key(p).comps[i]) THEN "ENAMETOOLONG"
    ELSE IF f.denied THEN "EACCES"
    ELSE IF Key(p) \in f.files THEN (IF p[Len(p)] = "/" THEN "ENOTDIR" ELSE "file")
    ELSE IF Key(p) \in f.dirs THEN "dir"
    ELSE "ENOENT"

\* os.path.isfile: any OSError is False
isfile(f, p) == os_stat(f, p) = "file"

\* pathlib.Path(p).exists(): stat of the normalised path; ENOENT and ENOTDIR
\* are False.  Any other OSError is re-raised by the interpreters whose
\* pathlib keeps its own check (reraise) and is False where it delegates to
\* os.path.exists.
Path_exists(f, p, reraise) ==
    LET st == os_stat(f, PurePath(p))
    IN  IF st \in {"file", "dir"} THEN "True"
        ELSE IF st \in {"ENOENT", "ENOTDIR"} THEN "False"
        ELSE IF reraise THEN "OSError" ELSE "False"

\* _is_file_path: os.path.isfile(path) or Path(path).exists()
_is_file_path(f, p, reraise) ==
    IF isfile(f, p) THEN "True" ELSE Path_exists(f, p, reraise)

\* the entries the modelled filesystem may hold
FileCands == { Key(<<"a">>), Key(<<"h", ":", "/", "/", "a">>) }
DirCands == { Key(<<"/", "b">>) }
EmptyFs == [files |-> {}, dirs |-> {}, denied |-> FALSE]

(***************************************************************************)
(* Inputs of the upload resolver                                            *)
(***************************************************************************)
\* file_source strings: an optional scheme/slash prefix, an optional first
\* name, and up to MaxPathSegs '/'-led segments
MaxPathSegs == 1
SourcePrefixes ==
    { << >>, <<"h", ":">>, <<"h", ":", "/", "/">>, <<"/", "/">>, <<":", "/", "/">> }
SourceHosts == { << >>, <<"a">>, <<"[">>, << LongRun >> }
SegmentNames == { << >>, <<"b">>, <<"b", ".", "c">> }

RECURSIVE SourcePaths(_)
SourcePaths(n) ==
    IF n = 0 THEN { << >> }
    ELSE SourcePaths(n-1)
         \cup { q \o <<"/">> \o name : q \in SourcePaths(n-1), name \in SegmentNames }

Sources ==
    { pre \o host \o path :
        pre \in SourcePrefixes, host \in SourceHosts, path \in SourcePaths(MaxPathSegs) }

Channel == <<"C123">>
OptFilenames == { None, Some(<< >>), Some(<<"f", ".", "t">>) }
OptTitles == { None, Some(<< >>), Some(<<"Report">>) }
\* <<initial_comment, thread_ts>>
OptExtras == { <<None, None>>, <<Some(<< >>), None>>, <<Some(<<"see file">>), Some(<<"1700000000.0001">>)>> }

\* <<title, <<initial_comment, thread_ts>>>> as callers pass them: title and
\* initial_comment are left out together, empty together or set together
UploadOptions ==
    { o \in OptTitles \X OptExtras :
        /\ IsNone(o[1]) <=> IsNone(o[2][1])
        /\ Truthy(o[1]) <=> Truthy(o[2][1]) }

\* The content-type header of a fetched resource ("" when there is none),
\* cut into tokens so that the words the code searches for are tokens:
\* application/pdf, image/png, text/html, application/x-apple-diskimage.
ContentTypes ==
    { <<"application", "/", "pdf">>, <<"image", "/", "png">>, <<"text", "/", "html">>,
      <<"application", "/", "x-apple-disk", "image">>, << >> }

NoUpload ==
    [channels |-> << >>, source |-> << >>, filename |-> None, title |-> None,
     initial_comment |-> None, thread_ts |-> None, branch |-> "none",
     fetch |-> "none", content_type |-> << >>]

\* the key is set whatever the value, "" standing for None
IfSet_SendsEmpty(key, o) == IF IsNone(o) THEN (key :> << >>) ELSE (key :> o[1])

\* {key: value} when the optional value is truthy, {} otherwise
\* (the "if x: kwargs[key] = x" idiom)
IfSet(key, o) == IF Truthy(o) THEN (key :> o[1]) ELSE EmptyMap

(***************************************************************************)
(* Upload resolver: upload_file and its three branches                      *)
(***************************************************************************)
\* _upload_from_url: the filename sent when the fetch has succeeded
UrlFilename(file_url, filename, content_type) ==
    IF Truthy(filename) THEN filename[1]
    ELSE LET derived == basename(urlparse(file_url).path)
         IN  IF derived = << >> \/ ~Contains(derived, ".")
             THEN IF Contains(content_type, "pdf") THEN <<"downloaded_file", ".", "pdf">>
                  ELSE IF Contains(content_type, "image") THEN <<"downloaded_image", ".", "jpg">>
                  ELSE <<"downloaded_file">>
             ELSE derived

\* _upload_from_url: kwargs of files_upload_v2
UrlUploadKwargs(u, content_type) ==
    ("channel" :> u.channels) @@ ("file" :> <<"<fetched bytes>">>)
    @@ ("filename" :> UrlFilename(u.source, u.filename, content_type))
    @@ ("title" :> IF Truthy(u.title) THEN u.title[1] ELSE <<"File from ">> \o u.source)
    @@ IfSet("initial_comment", u.initial_comment) @@ IfSet("thread_ts", u.thread_ts)

\* _upload_from_path that names the upload after the whole path
PathFilename_WholePath(file_path, filename) ==
    IF Truthy(filename) THEN filename[1] ELSE file_path

\* _upload_from_path: the filename sent
PathFilename(file_path, filename) ==
    IF Truthy(filename) THEN filename[1] ELSE basename(file_path)

\* _upload_from_path that sends a title only when the caller gave one
PathUploadKwargs_TitleIfSet(u) ==
    ("channel" :> u.channels) @@ ("file" :> u.source)
    @@ ("filename" :> PathFilename(u.source, u.filename))
    @@ IfSet("title", u.title)
    @@ IfSet("initial_comment", u.initial_comment) @@ IfSet("thread_ts", u.thread_ts)

\* _upload_from_path: kwargs of files_upload_v2
PathUploadKwargs(u) ==
    ("channel" :> u.channels) @@ ("file" :> u.source)
    @@ ("filename" :> PathFilename(u.source, u.filename))
    @@ ("title" :> IF Truthy(u.title) THEN u.title[1]
                   ELSE <<"File: ">> \o PathFilename(u.source, u.filename))
    @@ IfSet("initial_comment", u.initial_comment) @@ IfSet("thread_ts", u.thread_ts)

\* _upload_content: kwargs of files_upload_v2
ContentUploadKwargs(u) ==
    ("channel" :> u.channels) @@ ("file" :> <<"<encoded text>">>)
    @@ ("filename" :> u.filename[1])
    @@ ("title" :> IF Truthy(u.title) THEN u.title[1]
                   ELSE <<"Text file: ">> \o u.filename[1])
    @@ IfSet("initial_comment", u.initial_comment) @@ IfSet("thread_ts", u.thread_ts)

\* a classification that was derived once, from the filesystem as it was
\* when the adapter was constructed
Classify_Remembered(f, file_source, reraise) ==
    IF _is_url(file_source) THEN "url"
    ELSE LET isPath == _is_file_path(EmptyFs, file_source, reraise)
         IN  IF isPath = "True" THEN "path"
             ELSE IF isPath = "False" THEN "text"
             ELSE isPath

\* upload_file: the branch the source is routed to, or the exception the
\* existence check raises
Classify(f, file_source, reraise) ==
    IF _is_url(file_source) THEN "url"
    ELSE LET isPath == _is_file_path(f, file_source, reraise)
         IN  IF isPath = "True" THEN "path"
             ELSE IF isPath = "False" THEN "text"
             ELSE isPath

FetchCall(url) == OutCall("http_get", ("url" :> url))

\* upload_file whose else branch uploads under a default name
TextBranch_DefaultName(u) ==
    SafeApiCallStart("files_upload_v2",
        ContentUploadKwargs([u EXCEPT !.filename =
            IF Truthy(u.filename) THEN u.filename ELSE Some(<<"untitled">>)]), << >>)

\* upload_file, else branch: text content needs a filename, and without one
\* the envelope is returned at once
TextBranch(u) ==
    IF ~Truthy(u.filename)
    THEN /\ pc' = "done"
         /\ pending' = NoCall
         /\ outbound' = << >>
         /\ remote' = NoOutcome
         /\ result' = Returned(SlackResponse(FALSE, EmptyMap,
                          Some(<<"filename is required when uploading text content">>), None))
    ELSE SafeApiCallStart("files_upload_v2", ContentUploadKwargs(u), << >>)

\* upload_file up to its first await, entered from tool function t
UploadFileFrom(t) ==
    /\ pc = "idle"
    /\ \E file_source \in Sources, filename \in OptFilenames, opts \in UploadOptions,
          reraise \in BOOLEAN :
         LET title == opts[1]
             extras == opts[2]
             branch == Classify(fs, file_source, reraise)
             u == [channels |-> Channel, source |-> file_source, filename |-> filename,
                   title |-> title, initial_comment |-> extras[1],
                   thread_ts |-> extras[2], branch |-> branch,
                   fetch |-> "none", content_type |-> << >>]
         IN  /\ op' = "upload_file"
             /\ args' = ("channels" :> Channel) @@ ("file_source" :> file_source)
                        @@ ("filename" :> filename) @@ ("title" :> title)
                        @@ ("initial_comment" :> extras[1]) @@ ("thread_ts" :> extras[2])
             /\ upload' = u
             /\ CASE branch = "url" ->
                        /\ pc' = "fetching"
                        /\ pending' = FetchCall(file_source)
                        /\ outbound' = << FetchCall(file_source) >>
                        /\ remote' = NoOutcome
                        /\ result' = NoResult
                  [] branch = "path" ->
                        SafeApiCallStart("files_upload_v2", PathUploadKwargs(u), << >>)
                  [] branch = "text" -> TextBranch(u)
                  [] OTHER ->
                        /\ pc' = "done"
                        /\ pending' = NoCall
                        /\ outbound' = << >>
                        /\ remote' = NoOutcome
                        /\ result' = Raised(branch)
    /\ Awaited(t)
    /\ UNCHANGED <<current, suspended, env_token, startup, bot_token, fs>>

\* upload_file called directly
UploadFile == UploadFileFrom("none")

\* _upload_from_url that downloads the file a second time before it uploads
FetchReturns_FetchesTwice ==
    /\ pc = "fetching"
    /\ \E content_type \in ContentTypes :
         /\ upload' = [upload EXCEPT !.fetch = "ok", !.content_type = content_type]
         /\ SafeApiCallStart("files_upload_v2", UrlUploadKwargs(upload, content_type),
                             Append(outbound, FetchCall(upload.source)))
    /\ Awaited(tool)
    /\ UNCHANGED <<current, suspended, env_token, startup, bot_token, op, args, fs>>

\* _upload_from_url: the fetch succeeded (raise_for_status passed)
FetchReturns ==
    /\ pc = "fetching"
    /\ \E content_type \in ContentTypes :
         /\ upload' = [upload EXCEPT !.fetch = "ok", !.content_type = content_type]
         /\ SafeApiCallStart("files_upload_v2", UrlUploadKwargs(upload, content_type), outbound)
    /\ Awaited(tool)
    /\ UNCHANGED <<current, suspended, env_token, startup, bot_token, op, args, fs>>

\* _upload_from_url that goes on to the upload although the fetch failed
FetchRaisesHTTPError_UploadsAnyway ==
    /\ pc = "fetching"
    /\ upload' = [upload EXCEPT !.fetch = "HTTPError"]
    /\ SafeApiCallStart("files_upload_v2", UrlUploadKwargs(upload, << >>), outbound)
    /\ Awaited(tool)
    /\ UNCHANGED <<current, suspended, env_token, startup, bot_token, op, args, fs>>

\* _upload_from_url: client.get or raise_for_status raised an httpx.HTTPError
FetchRaisesHTTPError ==
    /\ pc = "fetching"
    /\ \E msg \in ExceptionTexts :
         result' = Returned(SlackResponse(FALSE, EmptyMap,
                       Some(<<"Failed to download file from URL: ">> \o msg), None))
    /\ pc' = "done"
    /\ pending' = NoCall
    /\ upload' = [upload EXCEPT !.fetch = "HTTPError"]
    /\ Awaited(tool)
    /\ UNCHANGED <<current, suspended, env_token, startup, bot_token, op, args, outbound, remote, fs>>

\* _upload_from_url: the fetch raised something that is not an httpx.HTTPError
FetchRaises ==
    /\ pc = "fetching"
    /\ \E msg \in ExceptionTexts :
         result' = Returned(SlackResponse(FALSE, EmptyMap,
                       Some(<<"Upload failed: ">> \o msg), None))
    /\ pc' = "done"
    /\ pending' = NoCall
    /\ upload' = [upload EXCEPT !.fetch = "Exception"]
    /\ Awaited(tool)
    /\ UNCHANGED <<current, suspended, env_token, startup, bot_token, op, args, outbound, remote, fs>>

\* the message each branch's "except Exception" puts before str(e)
BranchMessage(branch) ==
    CASE branch = "url" -> <<"Upload failed: ">>
      [] branch = "path" -> <<"Failed to upload file from path: ">>
      [] branch = "text" -> <<"Failed to upload content: ">>

\* str(e) of an exception that escaped _safe_api_call
ExcText(exc) == << exc >>

\* What the caller of _safe_api_call makes of its result: the upload branches
\* await it inside their own try, so an exception escaping _safe_api_call is
\* caught there; every other operation returns the awaited value as it is.
AfterSafeApiCall(r) ==
    IF op = "upload_file" /\ r.kind = "raised"
    THEN Returned(SlackResponse(FALSE, EmptyMap,
                     Some(BranchMessage(upload.branch) \o ExcText(r.exc)), None))
    ELSE r

(***************************************************************************)
(* The awaited client method completes                                      *)
(***************************************************************************)
\* a completion that issues a rejected call once more
Complete_Retries(outcome) ==
    /\ pc = "calling"
    /\ remote' = outcome
    /\ IF outcome.kind = "SlackApiError" /\ Len(outbound) < 3
       THEN /\ result' = NoResult
            /\ pc' = "calling"
            /\ pending' = pending
            /\ outbound' = Append(outbound, pending)
       ELSE /\ result' = AfterSafeApiCall(SafeApiCallResult(outcome))
            /\ pc' = "done"
            /\ pending' = NoCall
            /\ outbound' = outbound
    /\ Awaited(tool)
    /\ UNCHANGED <<current, suspended, env_token, startup, bot_token, op, args, upload, fs>>

\* a completion that is held back while another invocation's call is
\* outstanding, as behind a lock around the client
Complete_WaitsForOthers(outcome) ==
    /\ pc = "calling"
    /\ \A j \in DOMAIN suspended : suspended[j][1] # "calling"
    /\ remote' = outcome
    /\ result' = AfterSafeApiCall(SafeApiCallResult(outcome))
    /\ pc' = "done"
    /\ pending' = NoCall
    /\ Awaited(tool)
    /\ UNCHANGED <<current, suspended, env_token, startup, bot_token, op, args, outbound, upload, fs>>

Complete(outcome) ==
    /\ pc = "calling"
    /\ remote' = outcome
    /\ result' = AfterSafeApiCall(SafeApiCallResult(outcome))
    /\ pc' = "done"
    /\ pending' = NoCall
    /\ Awaited(tool)
    /\ UNCHANGED <<current, suspended, env_token, startup, bot_token, op, args, outbound, upload, fs>>

\* the client returned a payload
ClientReturns ==
    \E o \in RemoteOutcomes :
        /\ o.kind = "payload"
        /\ o.payload \in PayloadsFor(pending.method)
        /\ Complete(o)

\* the client raised SlackApiError
ClientRaisesSlackApiError == \E o \in RemoteOutcomes : o.kind = "SlackApiError" /\ Complete(o)

\* the client raised another exception
ClientRaises == \E o \in RemoteOutcomes : o.kind = "Exception" /\ Complete(o)

\* the invocation is over and its objects are discarded
Return ==
    /\ pc = "done"
    /\ pc' = "idle"
    /\ op' = "none"
    /\ args' = EmptyMap
    /\ pending' = NoCall
    /\ outbound' = << >>
    /\ remote' = NoOutcome
    /\ result' = NoResult
    /\ upload' = NoUpload
    /\ tool' = "none"
    /\ tool_result' = NoToolResult
    /\ UNCHANGED <<current, suspended, env_token, startup, bot_token, fs>>

(***************************************************************************)
(* _safe_api_call invoked with any operation name and parameter mapping     *)
(***************************************************************************)
CallKwargs == { EmptyMap, ("channel" :> Channel) }

Call ==
    /\ pc = "idle"
    /\ \E method_name \in ClientMethods \cup {UnknownMethod}, kwargs \in CallKwargs :
         /\ SafeApiCallStart(method_name, kwargs, << >>)
         /\ args' = ("method_name" :> method_name) @@ ("kwargs" :> kwargs)
    /\ op' = "_safe_api_call"
    /\ Awaited("none")
    /\ UNCHANGED <<current, suspended, env_token, startup, bot_token, upload, fs>>

(***************************************************************************)
(* The filesystem changes between invocations                               *)
(***************************************************************************)
CreateFile ==
    /\ pc = "idle"
    /\ ~fs.denied
    /\ \E k \in FileCands \ fs.files : fs' = [fs EXCEPT !.files = @ \cup {k}]
    /\ UNCHANGED <<current, suspended, env_token, startup, bot_token, pc, op, args, pending, outbound, remote, result, upload, tool, tool_result>>

DeleteFile ==
    /\ pc = "idle"
    /\ \E k \in fs.files : fs' = [fs EXCEPT !.files = @ \ {k}]
    /\ UNCHANGED <<current, suspended, env_token, startup, bot_token, pc, op, args, pending, outbound, remote, result, upload, tool, tool_result>>

MakeDir ==
    /\ pc = "idle"
    /\ ~fs.denied
    /\ \E k \in DirCands \ fs.dirs : fs' = [fs EXCEPT !.dirs = @ \cup {k}]
    /\ UNCHANGED <<current, suspended, env_token, startup, bot_token, pc, op, args, pending, outbound, remote, result, upload, tool, tool_result>>

RemoveDir ==
    /\ pc = "idle"
    /\ \E k \in fs.dirs : fs' = [fs EXCEPT !.dirs = @ \ {k}]
    /\ UNCHANGED <<current, suspended, env_token, startup, bot_token, pc, op, args, pending, outbound, remote, result, upload, tool, tool_result>>

\* search permission on the working directory is withdrawn or restored.
\* Without it every lookup fails whatever the directory holds, so it is
\* withdrawn from the empty directory and nothing is created meanwhile.
Chmod ==
    /\ pc = "idle"
    /\ fs.files = {} /\ fs.dirs = {}
    /\ fs' = [fs EXCEPT !.denied = ~@]
    /\ UNCHANGED <<current, suspended, env_token, startup, bot_token, pc, op, args, pending, outbound, remote, result, upload, tool, tool_result>>

(***************************************************************************)
(* Adapter operations: each builds its kwargs and awaits _safe_api_call     *)
(***************************************************************************)
\* values callers pass for Optional[str] and Optional[List] parameters
OptStr == { None, Some(<< >>), Some(<<"v">>) }
OptList == { None, Some(<< >>), Some(<< <<"e1">>, <<"e2">> >>) }

RECURSIVE JoinComma(_)
\* ",".join(list)
JoinComma(l) ==
    IF l = << >> THEN << >>
    ELSE IF Len(l) = 1 THEN l[1]
    ELSE l[1] \o <<",">> \o JoinComma(Tail(l))

\* {key: ",".join(value)} when the optional list is truthy
IfSetJoined(key, o) == IF Truthy(o) THEN (key :> JoinComma(o[1])) ELSE EmptyMap

\* an adapter operation up to its await, entered from tool function t
InvokeFrom(t, name, a, method, kwargs) ==
    /\ pc = "idle"
    /\ op' = name
    /\ args' = a
    /\ upload' = NoUpload
    /\ SafeApiCallStart(method, kwargs, << >>)
    /\ Awaited(t)
    /\ UNCHANGED <<current, suspended, env_token, startup, bot_token, fs>>

\* an adapter operation called directly
Invoke(name, a, method, kwargs) == InvokeFrom("none", name, a, method, kwargs)

\* send_message that puts every parameter into kwargs, set or not
send_message_kwargs_AllKeys(a) ==
    [k \in {"channel", "text", "blocks", "attachments", "thread_ts", "username",
            "icon_emoji", "icon_url"} |->
        IF k = "channel" THEN a.channel ELSE IF IsNone(a[k]) THEN << >> ELSE a[k][1]]

send_message_kwargs(a) ==
    ("channel" :> a.channel) @@ IfSet("text", a.text) @@ IfSet("blocks", a.blocks)
    @@ IfSet("attachments", a.attachments) @@ IfSet("thread_ts", a.thread_ts)
    @@ IfSet("username", a.username) @@ IfSet("icon_emoji", a.icon_emoji)
    @@ IfSet("icon_url", a.icon_url)

send_message ==
    \E a \in [channel : {Channel}, text : OptStr, blocks : OptList, attachments : OptList,
              thread_ts : OptStr, username : OptStr, icon_emoji : OptStr, icon_url : OptStr] :
        Invoke("send_message", a, "chat_postMessage", send_message_kwargs(a))

update_message_kwargs(a) ==
    ("channel" :> a.channel) @@ ("ts" :> a.ts) @@ IfSet("text", a.text)
    @@ IfSet("blocks", a.blocks) @@ IfSet("attachments", a.attachments)

update_message ==
    \E a \in [channel : {Channel}, ts : {<<"1700000000.0001">>}, text : OptStr,
              blocks : OptList, attachments : OptList] :
        Invoke("update_message", a, "chat_update", update_message_kwargs(a))

schedule_message_kwargs(a) ==
    ("channel" :> a.channel) @@ ("post_at" :> a.post_at) @@ IfSet("text", a.text)
    @@ IfSet("blocks", a.blocks) @@ IfSet("attachments", a.attachments)

schedule_message ==
    \E a \in [channel : {Channel}, post_at : {1700000000}, text : OptStr,
              blocks : OptList, attachments : OptList] :
        Invoke("schedule_message", a, "chat_scheduleMessage", schedule_message_kwargs(a))

list_channels_kwargs(a) ==
    ("exclude_archived" :> a.exclude_archived) @@ ("limit" :> a.limit)
    @@ ("types" :> a.types) @@ IfSet("cursor", a.cursor)

list_channels ==
    \E a \in [exclude_archived : BOOLEAN, limit : {100},
              types : {<<"public_channel,private_channel">>}, cursor : OptStr] :
        Invoke("list_channels", a, "conversations_list", list_channels_kwargs(a))

get_channel_history_kwargs(a) ==
    ("channel" :> a.channel) @@ ("limit" :> a.limit) @@ IfSet("cursor", a.cursor)
    @@ IfSet("latest", a.latest) @@ IfSet("oldest", a.oldest)

get_channel_history ==
    \E a \in [channel : {Channel}, limit : {100}, cursor : OptStr, latest : OptStr,
              oldest : OptStr] :
        Invoke("get_channel_history", a, "conversations_history", get_channel_history_kwargs(a))

get_thread_replies_kwargs(a) ==
    ("channel" :> a.channel) @@ ("ts" :> a.ts) @@ ("limit" :> a.limit)
    @@ IfSet("cursor", a.cursor)

get_thread_replies ==
    \E a \in [channel : {Channel}, ts : {<<"1700000000.0001">>}, limit : {100},
              cursor : OptStr] :
        Invoke("get_thread_replies", a, "conversations_replies", get_thread_replies_kwargs(a))

list_users_kwargs(a) == ("limit" :> a.limit) @@ IfSet("cursor", a.cursor)

list_users ==
    \E a \in [limit : {100}, cursor : OptStr] :
        Invoke("list_users", a, "users_list", list_users_kwargs(a))

list_files_kwargs(a) ==
    ("count" :> a.count) @@ ("page" :> a.page) @@ IfSet("user", a.user)
    @@ IfSet("channel", a.channel) @@ IfSet("ts_from", a.ts_from)
    @@ IfSet("ts_to", a.ts_to) @@ IfSet("types", a.types)

list_files ==
    \E a \in [user : OptStr, channel : OptStr, ts_from : OptStr, ts_to : OptStr,
              types : OptStr, count : {100}, page : {1}] :
        Invoke("list_files", a, "files_list", list_files_kwargs(a))

add_bookmark_kwargs(a) ==
    ("channel_id" :> a.channel_id) @@ ("title" :> a.title) @@ ("type" :> a.type)
    @@ IfSet("link", a.link) @@ IfSet("emoji", a.emoji)

add_bookmark ==
    \E a \in [channel_id : {Channel}, title : {<<"Docs">>}, type : {<<"link">>},
              link : OptStr, emoji : OptStr] :
        Invoke("add_bookmark", a, "bookmarks_add", add_bookmark_kwargs(a))

create_usergroup_kwargs(a) ==
    ("name" :> a.name) @@ IfSet("handle", a.handle)
    @@ IfSet("description", a.description) @@ IfSetJoined("channels", a.channels)

create_usergroup ==
    \E a \in [name : {<<"team">>}, handle : OptStr, description : OptStr,
              channels : OptList] :
        Invoke("create_usergroup", a, "usergroups_create", create_usergroup_kwargs(a))

update_usergroup_kwargs(a) ==
    ("usergroup" :> a.usergroup) @@ IfSet("name", a.name) @@ IfSet("handle", a.handle)
    @@ IfSet("description", a.description)

update_usergroup ==
    \E a \in [usergroup : {<<"S123">>}, name : OptStr, handle : OptStr,
              description : OptStr] :
        Invoke("update_usergroup", a, "usergroups_update", update_usergroup_kwargs(a))

get_dnd_info_kwargs(a) == IfSet("user", a.user)

get_dnd_info ==
    \E a \in [user : OptStr] :
        Invoke("get_dnd_info", a, "dnd_info", get_dnd_info_kwargs(a))

get_dnd_team_info_kwargs(a) == IfSetJoined("users", a.users)

get_dnd_team_info ==
    \E a \in [users : OptList] :
        Invoke("get_dnd_team_info", a, "dnd_teamInfo", get_dnd_team_info_kwargs(a))

\* invite_to_channel: a list of users is joined with ','
invite_to_channel ==
    \E a \in [channel : {Channel}, users : { << <<"U1">>, <<"U2">> >> }] :
        Invoke("invite_to_channel", a, "conversations_invite",
               ("channel" :> a.channel) @@ ("users" :> JoinComma(a.users)))

\* The operations that pass their required parameters on under the same
\* names: <<operation, client method, parameters>>
Forwarded ==
    { <<"test_auth", "auth_test", EmptyMap>>,
      <<"delete_message", "chat_delete", ("channel" :> Channel) @@ ("ts" :> <<"1700000000.0001">>)>>,
      <<"get_channel_info", "conversations_info", ("channel" :> Channel)>>,
      <<"create_channel", "conversations_create", ("name" :> <<"general">>) @@ ("is_private" :> FALSE)>>,
      <<"join_channel", "conversations_join", ("channel" :> Channel)>>,
      <<"leave_channel", "conversations_leave", ("channel" :> Channel)>>,
      <<"kick_from_channel", "conversations_kick", ("channel" :> Channel) @@ ("user" :> <<"U1">>)>>,
      <<"set_channel_topic", "conversations_setTopic", ("channel" :> Channel) @@ ("topic" :> <<"t">>)>>,
      <<"set_channel_purpose", "conversations_setPurpose", ("channel" :> Channel) @@ ("purpose" :> <<"p">>)>>,
      <<"archive_channel", "conversations_archive", ("channel" :> Channel)>>,
      <<"unarchive_channel", "conversations_unarchive", ("channel" :> Channel)>>,
      <<"get_user_info", "users_info", ("user" :> <<"U1">>)>>,
      <<"get_user_profile", "users_profile_get", ("user" :> <<"U1">>)>>,
      <<"set_user_presence", "users_setPresence", ("presence" :> <<"away">>)>>,
      <<"get_file_info", "files_info", ("file" :> <<"F1">>)>>,
      <<"delete_file", "files_delete", ("file" :> <<"F1">>)>>,
      <<"add_reaction", "reactions_add", ("name" :> <<"tada">>) @@ ("channel" :> Channel) @@ ("timestamp" :> <<"1700000000.0001">>)>>,
      <<"remove_reaction", "reactions_remove", ("name" :> <<"tada">>) @@ ("channel" :> Channel) @@ ("timestamp" :> <<"1700000000.0001">>)>>,
      <<"get_reactions", "reactions_get", ("channel" :> Channel) @@ ("timestamp" :> <<"1700000000.0001">>)>>,
      <<"pin_message", "pins_add", ("channel" :> Channel) @@ ("timestamp" :> <<"1700000000.0001">>)>>,
      <<"unpin_message", "pins_remove", ("channel" :> Channel) @@ ("timestamp" :> <<"1700000000.0001">>)>>,
      <<"list_pins", "pins_list", ("channel" :> Channel)>>,
      <<"remove_bookmark", "bookmarks_remove", ("channel_id" :> Channel) @@ ("bookmark_id" :> <<"Bk1">>)>>,
      <<"list_bookmarks", "bookmarks_list", ("channel_id" :> Channel)>>,
      <<"list_usergroups", "usergroups_list", ("include_disabled" :> FALSE)>>,
      <<"disable_usergroup", "usergroups_disable", ("usergroup" :> <<"S123">>)>>,
      <<"get_team_info", "team_info", EmptyMap>>,
      <<"get_team_profile", "team_profile_get", EmptyMap>>,
      <<"list_emoji", "emoji_list", EmptyMap>> }

forward == \E f \in Forwarded : Invoke(f[1], f[3], f[2], f[3])

\* the Optional parameters of each operation, by the key they are sent under
OptionalKeys(name) ==
    CASE name = "send_message" ->
            {"text", "blocks", "attachments", "thread_ts", "username", "icon_emoji", "icon_url"}
      [] name \in {"update_message", "schedule_message"} -> {"text", "blocks", "attachments"}
      [] name \in {"list_channels", "get_thread_replies", "list_users"} -> {"cursor"}
      [] name = "get_channel_history" -> {"cursor", "latest", "oldest"}
      [] name = "upload_file" -> {"filename", "title", "initial_comment", "thread_ts"}
      [] name = "list_files" -> {"user", "channel", "ts_from", "ts_to", "types"}
      [] name = "add_bookmark" -> {"link", "emoji"}
      [] name = "create_usergroup" -> {"handle", "description", "channels"}
      [] name = "update_usergroup" -> {"name", "handle", "description"}
      [] name = "get_dnd_info" -> {"user"}
      [] name = "get_dnd_team_info" -> {"users"}
      [] OTHER -> {}

(***************************************************************************)
(* SlackTools functions up to their await.  args holds what the caller of   *)
(* the tool function passed, under the adapter's parameter names (the       *)
(* facade renames message_ts and thread_ts to ts, emoji to name, file_id    *)
(* to file); a parameter that has a default is an Optional here, and None    *)
(* says the caller left it out.                                             *)
(***************************************************************************)
\* the value bound to a parameter with a default
Default(o, d) == IF IsNone(o) THEN d ELSE o[1]

\* a tool function raises before it awaits anything
RaiseAtOnce(t, a, msg) ==
    /\ pc = "idle"
    /\ pc' = "done"
    /\ op' = "none"
    /\ args' = a
    /\ pending' = NoCall
    /\ outbound' = << >>
    /\ remote' = NoOutcome
    /\ result' = NoResult
    /\ upload' = NoUpload
    /\ tool' = t
    /\ tool_result' = ToolRaised("ValueError", msg)
    /\ UNCHANGED <<current, suspended, env_token, startup, bot_token, fs>>

\* username, icon_emoji and icon_url as callers pass them
OptIcons ==
    { <<None, None, None>>,
      <<Some(<<"bot">>), Some(<<":robot:">>), None>>,
      <<Some(<< >>), None, Some(<<"https://example.com/i.png">>)>> }

\* send_slack_message without the check of text and blocks
send_slack_message_Unchecked ==
    \E text \in OptStr, blocks \in OptList, attachments \in OptList, thread_ts \in OptStr,
       icons \in OptIcons :
        LET a == [channel |-> Channel, text |-> text, blocks |-> blocks,
                  attachments |-> attachments, thread_ts |-> thread_ts,
                  username |-> icons[1], icon_emoji |-> icons[2], icon_url |-> icons[3]]
        IN  InvokeFrom("send_slack_message", "send_message", a, "chat_postMessage",
                       send_message_kwargs(a))

\* send_slack_message: "if not text and not blocks: raise" comes before the
\* adapter is called
\* send_slack_message that rejects only when text and blocks are both None
send_slack_message_NoneOnly ==
    \E text \in OptStr, blocks \in OptList, attachments \in OptList, thread_ts \in OptStr,
       icons \in OptIcons :
        LET a == [channel |-> Channel, text |-> text, blocks |-> blocks,
                  attachments |-> attachments, thread_ts |-> thread_ts,
                  username |-> icons[1], icon_emoji |-> icons[2], icon_url |-> icons[3]]
        IN  IF IsNone(text) /\ IsNone(blocks)
            THEN RaiseAtOnce("send_slack_message", a,
                             <<"Either text or blocks must be provided">>)
            ELSE InvokeFrom("send_slack_message", "send_message", a, "chat_postMessage",
                            send_message_kwargs(a))

send_slack_message ==
    \E text \in OptStr, blocks \in OptList, attachments \in OptList, thread_ts \in OptStr,
       icons \in OptIcons :
        LET a == [channel |-> Channel, text |-> text, blocks |-> blocks,
                  attachments |-> attachments, thread_ts |-> thread_ts,
                  username |-> icons[1], icon_emoji |-> icons[2], icon_url |-> icons[3]]
        IN  IF ~Truthy(text) /\ ~Truthy(blocks)
            THEN RaiseAtOnce("send_slack_message", a,
                             <<"Either text or blocks must be provided">>)
            ELSE InvokeFrom("send_slack_message", "send_message", a, "chat_postMessage",
                            send_message_kwargs(a))

\* update_slack_message with the check send_slack_message makes
update_slack_message_Checked ==
    \E a \in [channel : {Channel}, ts : {<<"1700000000.0001">>}, text : OptStr,
              blocks : OptList, attachments : OptList] :
        IF ~Truthy(a.text) /\ ~Truthy(a.blocks)
        THEN RaiseAtOnce("update_slack_message", a,
                         <<"Either text or blocks must be provided">>)
        ELSE InvokeFrom("update_slack_message", "update_message", a, "chat_update",
                        update_message_kwargs(a))

update_slack_message ==
    \E a \in [channel : {Channel}, ts : {<<"1700000000.0001">>}, text : OptStr,
              blocks : OptList, attachments : OptList] :
        InvokeFrom("update_slack_message", "update_message", a, "chat_update",
                   update_message_kwargs(a))

schedule_slack_message ==
    \E a \in [channel : {Channel}, post_at : {1700000000}, text : OptStr,
              blocks : OptList, attachments : OptList] :
        InvokeFrom("schedule_slack_message", "schedule_message", a, "chat_scheduleMessage",
                   schedule_message_kwargs(a))

\* list_slack_channels(limit=100, exclude_archived=True,
\*                     types="public_channel,private_channel", cursor=None)
list_slack_channels ==
    \E a \in [limit : {None, Some(50)}, exclude_archived : {None, Some(FALSE)},
              types : {None, Some(<<"public_channel">>)}, cursor : OptStr] :
        InvokeFrom("list_slack_channels", "list_channels", a, "conversations_list",
                   list_channels_kwargs(
                       [limit |-> Default(a.limit, 100),
                        exclude_archived |-> Default(a.exclude_archived, TRUE),
                        types |-> Default(a.types, <<"public_channel,private_channel">>),
                        cursor |-> a.cursor]))

\* get_slack_channel_history(channel, limit=20, cursor=None, latest=None, oldest=None)
get_slack_channel_history ==
    \E a \in [channel : {Channel}, limit : {None, Some(50)}, cursor : OptStr,
              latest : OptStr, oldest : OptStr] :
        InvokeFrom("get_slack_channel_history", "get_channel_history", a,
                   "conversations_history",
                   get_channel_history_kwargs([a EXCEPT !.limit = Default(a.limit, 20)]))

\* get_slack_thread_replies(channel, thread_ts, limit=100, cursor=None)
get_slack_thread_replies ==
    \E a \in [channel : {Channel}, ts : {<<"1700000000.0001">>}, limit : {None, Some(50)},
              cursor : OptStr] :
        InvokeFrom("get_slack_thread_replies", "get_thread_replies", a,
                   "conversations_replies",
                   get_thread_replies_kwargs([a EXCEPT !.limit = Default(a.limit, 100)]))

\* list_slack_users(limit=100, cursor=None)
list_slack_users ==
    \E a \in [limit : {None, Some(50)}, cursor : OptStr] :
        InvokeFrom("list_slack_users", "list_users", a, "users_list",
                   list_users_kwargs([a EXCEPT !.limit = Default(a.limit, 100)]))

\* list_slack_files(count=20, channel=None, user=None, ts_from=None,
\*                  ts_to=None, types=None, page=1)
list_slack_files ==
    \E a \in [count : {None, Some(50)}, channel : OptStr, user : OptStr,
              ts_from : {None, Some(<<"1700000000">>)}, ts_to : {None},
              types : {None, Some(<<"images">>)}, page : {None, Some(2)}] :
        InvokeFrom("list_slack_files", "list_files", a, "files_list",
                   list_files_kwargs([a EXCEPT !.count = Default(a.count, 20),
                                               !.page = Default(a.page, 1)]))

add_slack_bookmark ==
    \E a \in [channel_id : {Channel}, title : {<<"Docs">>}, type : {<<"link">>},
              link : OptStr, emoji : OptStr] :
        InvokeFrom("add_slack_bookmark", "add_bookmark", a, "bookmarks_add",
                   add_bookmark_kwargs(a))

create_slack_usergroup ==
    \E a \in [name : {<<"team">>}, handle : OptStr, description : OptStr,
              channels : OptList] :
        InvokeFrom("create_slack_usergroup", "create_usergroup", a, "usergroups_create",
                   create_usergroup_kwargs(a))

update_slack_usergroup ==
    \E a \in [usergroup : {<<"S123">>}, name : OptStr, handle : OptStr,
              description : OptStr] :
        InvokeFrom("update_slack_usergroup", "update_usergroup", a, "usergroups_update",
                   update_usergroup_kwargs(a))

get_slack_dnd_info ==
    \E a \in [user : OptStr] :
        InvokeFrom("get_slack_dnd_info", "get_dnd_info", a, "dnd_info",
                   get_dnd_info_kwargs(a))

get_slack_team_dnd_info ==
    \E a \in [users : OptList] :
        InvokeFrom("get_slack_team_dnd_info", "get_dnd_team_info", a, "dnd_teamInfo",
                   get_dnd_team_info_kwargs(a))

invite_to_slack_channel ==
    \E a \in [channel : {Channel}, users : { << <<"U1">>, <<"U2">> >> }] :
        InvokeFrom("invite_to_slack_channel", "invite_to_channel", a, "conversations_invite",
                   ("channel" :> a.channel) @@ ("users" :> JoinComma(a.users)))

\* create_slack_channel(name, is_private=False)
create_slack_channel ==
    \E a \in [name : {<<"general">>}, is_private : {None, Some(TRUE)}] :
        InvokeFrom("create_slack_channel", "create_channel", a, "conversations_create",
                   ("name" :> a.name) @@ ("is_private" :> Default(a.is_private, FALSE)))

\* list_slack_usergroups(include_disabled=False)
list_slack_usergroups ==
    \E a \in [include_disabled : {None, Some(TRUE)}] :
        InvokeFrom("list_slack_usergroups", "list_usergroups", a, "usergroups_list",
                   ("include_disabled" :> Default(a.include_disabled, FALSE)))

\* upload_slack_file passes its six parameters on to upload_file
upload_slack_file == UploadFileFrom("upload_slack_file")

\* the tool function that awaits a given adapter operation
ToolOf(name) == (CHOOSE f \in SlackTools : f[2] = name)[1]

\* the remaining tool functions take required parameters only and pass
\* them on
forwarding_tool ==
    \E f \in Forwarded :
        /\ f[1] \notin {"create_channel", "list_usergroups"}
        /\ InvokeFrom(ToolOf(f[1]), f[1], f[3], f[2], f[3])

\* the parameters of a tool function that its caller may leave out
ToolOptional(t) ==
    CASE t = "send_slack_message" ->
            {"text", "blocks", "attachments", "thread_ts", "username", "icon_emoji", "icon_url"}
      [] t \in {"update_slack_message", "schedule_slack_message"} ->
            {"text", "blocks", "attachments"}
      [] t = "list_slack_channels" -> {"limit", "exclude_archived", "types", "cursor"}
      [] t = "get_slack_channel_history" -> {"limit", "cursor", "latest", "oldest"}
      [] t \in {"get_slack_thread_replies", "list_slack_users"} -> {"limit", "cursor"}
      [] t = "upload_slack_file" -> {"filename", "title", "initial_comment", "thread_ts"}
      [] t = "list_slack_files" ->
            {"count", "channel", "user", "ts_from", "ts_to", "types", "page"}
      [] t = "add_slack_bookmark" -> {"link", "emoji"}
      [] t = "create_slack_usergroup" -> {"handle", "description", "channels"}
      [] t = "update_slack_usergroup" -> {"name", "handle", "description"}
      [] t = "get_slack_dnd_info" -> {"user"}
      [] t = "get_slack_team_dnd_info" -> {"users"}
      [] t = "create_slack_channel" -> {"is_private"}
      [] t = "list_slack_usergroups" -> {"include_disabled"}
      [] OTHER -> {}

\* the parameters that have a default other than None, which the tool
\* function passes on when its caller leaves them out
ToolDefaulted(t) ==
    CASE t = "list_slack_channels" -> {"limit", "exclude_archived", "types"}
      [] t \in {"get_slack_channel_history", "get_slack_thread_replies", "list_slack_users"} ->
            {"limit"}
      [] t = "list_slack_files" -> {"count", "page"}
      [] t = "create_slack_channel" -> {"is_private"}
      [] t = "list_slack_usergroups" -> {"include_disabled"}
      [] OTHER -> {}

\* the parameter an outbound key comes from: upload_file renames some
ParamOf(key) ==
    IF op # "upload_file" THEN key
    ELSE CASE key = "channel" -> "channels"
           [] key \in {"file", "content", "url"} -> "file_source"
           [] OTHER -> key

(***************************************************************************)
(* Tasks: the event loop runs one invocation at a time and can switch to    *)
(* another one wherever the running one awaits                              *)
(***************************************************************************)
NTasks == 2
Tasks == 1..NTasks

\* the per-invocation variables
frame == <<pc, op, args, pending, outbound, remote, result, upload, tool, tool_result>>

\* the frame of a task that has not started an invocation
IdleFrame == <<"idle", "none", EmptyMap, NoCall, << >>, NoOutcome, NoResult, NoUpload,
               "none", NoToolResult>>

(***************************************************************************)
(* Specifications                                                           *)
(***************************************************************************)
Idle ==
    /\ pc = "idle"
    /\ op = "none"
    /\ args = EmptyMap
    /\ pending = NoCall
    /\ outbound = << >>
    /\ remote = NoOutcome
    /\ result = NoResult
    /\ upload = NoUpload
    /\ fs = EmptyFs
    /\ tool = "none"
    /\ tool_result = NoToolResult
    /\ current = 1
    /\ suspended = [i \in Tasks |-> IdleFrame]

\* the server process before start-up, for every value of SLACK_BOT_TOKEN
InitStartup ==
    /\ env_token \in {None} \cup { Some(t) : t \in Tokens }
    /\ startup = "pending"
    /\ bot_token = None
    /\ Idle

NextStartup == ServerStartup

SpecStartup == InitStartup /\ [][NextStartup]_vars

\* a constructed adapter
Init ==
    /\ env_token = Some(ValidToken)
    /\ startup = "ok"
    /\ bot_token = Some(ValidToken)
    /\ Idle

Next ==
    \/ Call
    \/ send_message \/ update_message \/ schedule_message
    \/ list_channels \/ get_channel_history \/ get_thread_replies
    \/ list_users \/ list_files \/ add_bookmark
    \/ create_usergroup \/ update_usergroup
    \/ get_dnd_info \/ get_dnd_team_info
    \/ invite_to_channel \/ forward
    \/ UploadFile \/ FetchReturns \/ FetchRaisesHTTPError \/ FetchRaises
    \/ ClientReturns \/ ClientRaisesSlackApiError \/ ClientRaises
    \/ Return

Spec == Init /\ [][Next]_vars

\* the upload resolver on a filesystem that changes between invocations
NextUpload ==
    \/ UploadFile
    \/ FetchReturns \/ FetchRaisesHTTPError \/ FetchRaises
    \/ ClientReturns \/ ClientRaisesSlackApiError \/ ClientRaises
    \/ Return
    \/ CreateFile \/ DeleteFile \/ MakeDir \/ RemoveDir \/ Chmod

SpecUpload == Init /\ [][NextUpload]_vars

\* every invocation enters through a SlackTools function, as it does when
\* the server's tools are called
NextTools ==
    \/ send_slack_message \/ update_slack_message \/ schedule_slack_message
    \/ list_slack_channels \/ get_slack_channel_history \/ get_slack_thread_replies
    \/ list_slack_users \/ list_slack_files \/ add_slack_bookmark
    \/ create_slack_usergroup \/ update_slack_usergroup
    \/ get_slack_dnd_info \/ get_slack_team_dnd_info
    \/ invite_to_slack_channel \/ create_slack_channel \/ list_slack_usergroups
    \/ forwarding_tool \/ upload_slack_file
    \/ FetchReturns \/ FetchRaisesHTTPError \/ FetchRaises
    \/ ClientReturns \/ ClientRaisesSlackApiError \/ ClientRaises
    \/ Return

SpecTools == Init /\ [][NextTools]_vars

\* a switch between invocations whose locals are kept on the adapter: the
\* task taken up finds those of the task that was running
Switch_SharedLocals ==
    \E i \in Tasks \ {current} :
        /\ current' = i
        /\ UNCHANGED <<suspended, env_token, startup, bot_token, fs, pc, op, args, pending,
                       outbound, remote, result, upload, tool, tool_result>>

\* The event loop runs one invocation at a time and leaves it only where it
\* awaits (or between invocations): the running invocation's locals are put
\* aside and those of task i are taken up.  Nothing of an invocation is kept
\* on the adapter, so nothing else changes.
Switch ==
    \E i \in Tasks \ {current} :
        /\ current' = i
        /\ suspended' = [suspended EXCEPT ![current] = frame, ![i] = IdleFrame]
        /\ pc' = suspended[i][1]
        /\ op' = suspended[i][2]
        /\ args' = suspended[i][3]
        /\ pending' = suspended[i][4]
        /\ outbound' = suspended[i][5]
        /\ remote' = suspended[i][6]
        /\ result' = suspended[i][7]
        /\ upload' = suspended[i][8]
        /\ tool' = suspended[i][9]
        /\ tool_result' = suspended[i][10]
        /\ UNCHANGED <<env_token, startup, bot_token, fs>>

\* the per-invocation variables of task i
FrameOf(i) == IF i = current THEN frame ELSE suspended[i]

\* tool invocations running concurrently on the one adapter of the server
NextConcurrent ==
    \/ get_slack_dnd_info \/ invite_to_slack_channel
    \/ ClientReturns \/ ClientRaisesSlackApiError \/ ClientRaises
    \/ Return
    \/ Switch

SpecConcurrent == Init /\ [][NextConcurrent]_vars

\* server.py: a tool of the MCP server.  Tools are served by mcp.run(), which
\* is reached only when the module-level construction of slack_tools has not
\* raised; the tool raises when slack_tools is falsy and otherwise awaits the
\* SlackTools function of the same name.
ServerTool(t, body) ==
    /\ startup = "ok"
    /\ IF IsNone(bot_token)
       THEN RaiseAtOnce(t, EmptyMap, <<"Slack tools not initialized">>)
       ELSE body

server_test_slack_auth ==
    ServerTool("test_slack_auth",
               InvokeFrom("test_slack_auth", "test_auth", EmptyMap, "auth_test", EmptyMap))

server_get_slack_dnd_info == ServerTool("get_slack_dnd_info", get_slack_dnd_info)

\* the server process from its start, for every value of SLACK_BOT_TOKEN
NextServer ==
    \/ ServerStartup
    \/ server_test_slack_auth \/ server_get_slack_dnd_info
    \/ ClientReturns \/ ClientRaisesSlackApiError \/ ClientRaises
    \/ Return

SpecServer == InitStartup /\ [][NextServer]_vars

\* the invocation whose progress is observed: the first task
Observed == CHOOSE i \in Tasks : \A j \in Tasks : i <= j

\* the call the observed invocation awaits returns or fails, and the
\* invocation is resumed
CompletionOfObserved ==
    /\ current = Observed
    /\ (ClientReturns \/ ClientRaisesSlackApiError \/ ClientRaises)

\* The event loop runs the observed invocation again and again, and resumes
\* it once the call it awaits has returned or failed.  Nothing is assumed of
\* the other invocations: their calls may stay outstanding for ever.
SpecConcurrentFair ==
    /\ SpecConcurrent
    /\ WF_vars(Switch /\ current' = Observed)
    /\ SF_vars(CompletionOfObserved)

(***************************************************************************)
(* Properties                                                               *)
(***************************************************************************)
\* the invocation entered _safe_api_call directly, with the name and the
\* parameters recorded in args
DirectCall == op = "_safe_api_call"

\* C1: _safe_api_call never raises: for every operation name, parameter
\* mapping and remote outcome the invocation ends by returning an envelope.
C1_SafeApiCallNeverRaises ==
    (DirectCall /\ pc = "done") => result.kind = "returned"

\* C2: every envelope the adapter produces with ok = false has an error
\* string that is neither None nor "".
C2_FailedEnvelopeHasError ==
    (pc = "done" /\ result.kind = "returned" /\ result.env.ok = FALSE)
        => Truthy(result.env.error)

\* C3: a remote call that returns a success payload yields the envelope
\* {ok: true, data: the payload, error: None, warning: the payload's warning},
\* and no envelope has ok = true together with a non-empty error.
C3_SuccessEnvelope ==
    /\ (pc = "done" /\ remote.kind = "payload") =>
          /\ result.kind = "returned"
          /\ result.env.ok = TRUE
          /\ result.env.error = None
          /\ result.env.data = remote.payload
          /\ result.env.warning =
                (IF "warning" \in DOMAIN remote.payload
                 THEN Some(remote.payload["warning"]) ELSE None)
    /\ (pc = "done" /\ result.kind = "returned" /\ result.env.ok = TRUE)
          => ~Truthy(result.env.error)

\* a success payload that carries a warning has been turned into its envelope
C3_Witness ==
    /\ pc = "done"
    /\ remote.kind = "payload"
    /\ "warning" \in DOMAIN remote.payload
    /\ result.kind = "returned"
    /\ result.env.ok = TRUE

\* C4: construction succeeds exactly for the credentials that begin with
\* 'xoxb-', and for every other credential, the absent one included, it fails
\* with the configuration error (the ValueError __init__ raises).
ConfigurationError == "ValueError"
C4_ConstructionIffPrefix ==
    startup # "pending" =>
        /\ startup = "ok" <=> (~IsNone(env_token) /\ StartsWith(env_token[1], TokenPrefix))
        /\ startup # "ok" => startup = ConfigurationError

C7_ExactlyOneCall ==
    (DirectCall /\ pc = "done") => Len(outbound) = 1

\* C7 as amended: an invocation of _safe_api_call performs one outbound call
\* when the client provides the named method and none when the lookup of the
\* name fails; the call is the named method with the given parameters, and it
\* is not repeated after a failure.  An adapter operation other than the
\* upload performs exactly one.
C7_OneCallWhenMethodKnown ==
    /\ (DirectCall /\ pc \in {"calling", "done"}) =>
          IF args["method_name"] \in ClientMethods
          THEN outbound = << OutCall(args["method_name"], args["kwargs"]) >>
          ELSE outbound = << >> /\ pc = "done"
    /\ (op \notin {"none", "_safe_api_call", "upload_file"} /\ pc \in {"calling", "done"})
          => Len(outbound) = 1

\* a call that failed has ended with its one outbound call
C7_Witness ==
    /\ DirectCall
    /\ pc = "done"
    /\ remote.kind \in {"Exception", "SlackApiError"}
    /\ result.kind = "returned"
    /\ Len(outbound) = 1

\* C8: for every file_source and filesystem state exactly one of the three
\* branches is taken, and a string that parses as a URL with scheme and
\* network location goes to the URL branch even when it names an existing
\* path.
C8_ExactlyOneBranch ==
    op = "upload_file" =>
        /\ upload.branch \in {"url", "path", "text"}
        /\ (_is_url(upload.source) => upload.branch = "url")

\* C9: a literal-text source without a filename fails validation with no
\* outbound call of either kind; with a filename the same source is uploaded
\* through the text branch.
C9_TextNeedsFilename ==
    (op = "upload_file" /\ upload.branch = "text") =>
        IF ~Truthy(args["filename"])
        THEN /\ pc = "done"
             /\ outbound = << >>
             /\ result.kind = "returned"
             /\ result.env.ok = FALSE
             /\ result.env.error = Some(<<"filename is required when uploading text content">>)
        ELSE /\ Len(outbound) = 1
             /\ outbound[1].method = "files_upload_v2"
             /\ outbound[1].kwargs["file"] = <<"<encoded text>">>
             /\ outbound[1].kwargs["filename"] = args["filename"][1]

\* text without a filename has been rejected
C9_Witness ==
    /\ op = "upload_file"
    /\ upload.branch = "text"
    /\ args["filename"] = None
    /\ upload.source # << >>
    /\ pc = "done"
    /\ outbound = << >>

\* C10: every key of an outbound parameter mapping that corresponds to an
\* optional parameter carries a value that is neither None nor empty.
C10_NoEmptyOptionalValue ==
    \A i \in 1..Len(outbound) :
        \A k \in DOMAIN outbound[i].kwargs \cap OptionalKeys(op) :
            outbound[i].kwargs[k] # << >>

\* the parameters the caller of the running tool function supplied
Supplied == { k \in DOMAIN args : k \notin ToolOptional(tool) \/ args[k] # None }

\* upload_file derives filename and title when its caller leaves them out
UploadDerived(t) == IF t = "upload_slack_file" THEN {"filename", "title"} ELSE {}

\* C11 as stated: for every tool operation the outbound parameter mapping
\* contains only keys of parameters the caller of the tool supplied.
C11_OnlySuppliedKeys ==
    tool # "none" =>
        \A i \in 1..Len(outbound) :
            \A k \in DOMAIN outbound[i].kwargs : ParamOf(k) \in Supplied

\* C11 as amended: every outbound key belongs to a parameter the caller
\* supplied, or to a parameter whose signature default is not None (those
\* defaults are always sent), or is the filename or title of an upload
\* (derived when left out).  A parameter whose default is None is never sent
\* when the caller leaves it out.
C11_SuppliedOrDefaultedKeys ==
    tool # "none" =>
        \A i \in 1..Len(outbound) :
            \A k \in DOMAIN outbound[i].kwargs :
                ParamOf(k) \in Supplied \cup ToolDefaulted(tool) \cup UploadDerived(tool)

\* channels are being listed for a caller who left out limit and cursor:
\* limit is sent, cursor is not
C11_Witness ==
    /\ tool = "list_slack_channels"
    /\ pc = "calling"
    /\ args["limit"] = None
    /\ args["cursor"] = None
    /\ "limit" \in DOMAIN outbound[1].kwargs
    /\ "cursor" \notin DOMAIN outbound[1].kwargs

\* C12: when the adapter operation of a tool function returns an envelope
\* with ok = false and error string E, the function raises the application
\* error (ValueError) whose message is its own context text followed by E;
\* no two functions share a context text.
C12_FailureMessage ==
    (tool # "none" /\ pc = "done" /\ result.kind = "returned"
        /\ ~result.env.ok /\ ~IsNone(result.env.error)) =>
        /\ tool_result.kind = "raised"
        /\ tool_result.exc = "ValueError"
        /\ tool_result.msg = FailureContext(tool) \o result.env.error[1]
        /\ FailureContext(tool) # << >>
        /\ \A t \in ToolNames \ {tool} : FailureContext(t) # FailureContext(tool)

\* channels were listed with the default limit and exclude_archived, the
\* remote answered 'ratelimited', and the error raised names it
C12_Witness ==
    /\ tool = "list_slack_channels"
    /\ pc = "done"
    /\ args["limit"] = None
    /\ args["exclude_archived"] = None
    /\ outbound[1].kwargs["limit"] = 100
    /\ outbound[1].kwargs["exclude_archived"] = TRUE
    /\ result.env.error = Some(<<"ratelimited">>)
    /\ tool_result.kind = "raised"
    /\ tool_result.msg = <<"Failed to list channels: ", "ratelimited">>

\* C13: for every tool function and every envelope its adapter operation
\* returns: with ok = true the function returns its reshaped result and does
\* not raise, whatever the payload holds; with ok = false it raises the
\* application error (ValueError) and returns nothing.
C13_ReturnIffOk ==
    (tool # "none" /\ pc = "done" /\ result.kind = "returned") =>
        IF result.env.ok
        THEN tool_result.kind = "returned"
        ELSE tool_result.kind = "raised" /\ tool_result.exc = "ValueError"

\* C14: a send-message invocation with neither text nor blocks raises at
\* once: no adapter operation is entered and no outbound call is made.
C14_SendNeedsTextOrBlocks ==
    (tool = "send_slack_message" /\ ~Truthy(args["text"]) /\ ~Truthy(args["blocks"])) =>
        /\ pc = "done"
        /\ op = "none"
        /\ outbound = << >>
        /\ pending = NoCall
        /\ tool_result.kind = "raised"
        /\ tool_result.exc = "ValueError"
        /\ tool_result.msg = <<"Either text or blocks must be provided">>

\* a message with attachments but without text and blocks has been refused
C14_Witness ==
    /\ tool = "send_slack_message"
    /\ args["text"] = None
    /\ args["blocks"] = None
    /\ Truthy(args["attachments"])
    /\ pc = "done"
    /\ outbound = << >>
    /\ tool_result.kind = "raised"

\* the upload was given a URL
UrlUpload == op = "upload_file" /\ upload.branch = "url"

\* C15: a tool invocation issues at most one outbound call, except a
\* URL-sourced upload, which issues at most two: the HTTP fetch and then,
\* once the fetch has returned, the Slack upload.  At most one call is
\* outstanding at any time, and it is the last one issued.
C15_AtMostOneRoundTrip ==
    tool # "none" =>
        /\ Len(outbound) <= (IF UrlUpload THEN 2 ELSE 1)
        /\ UrlUpload =>
              /\ Len(outbound) >= 1 /\ outbound[1] = FetchCall(upload.source)
              /\ Len(outbound) = 2 =>
                    /\ outbound[2].method = "files_upload_v2"
                    /\ upload.fetch = "ok"
              /\ pc = "fetching" => Len(outbound) = 1
        /\ (\A i \in 1..Len(outbound) : outbound[i].method = "http_get" => UrlUpload /\ i = 1)
        /\ pc \in {"fetching", "calling"} => pending = outbound[Len(outbound)]
        /\ pc = "done" => pending = NoCall

\* a URL-sourced upload has ended after its fetch and its upload
C15_Witness ==
    /\ tool = "upload_slack_file"
    /\ UrlUpload
    /\ pc = "done"
    /\ Len(outbound) = 2
    /\ remote.kind = "payload"

\* the caller of send_slack_message supplied channel and a non-empty text
\* and nothing else
OnlyChannelAndText ==
    /\ tool = "send_slack_message"
    /\ Truthy(args["text"])
    /\ \A k \in ToolOptional(tool) \ {"text"} : args[k] = None

\* C16: sending a message with only channel and text issues one
\* chat_postMessage call whose keys are exactly channel and text, with the
\* caller's values, and on remote success the tool's result holds the
\* payload's channel under 'channel' and the payload's ts under 'timestamp'.
C16_SendChannelAndText ==
    OnlyChannelAndText =>
        /\ pc \in {"calling", "done"}
        /\ Len(outbound) = 1
        /\ outbound[1].method = "chat_postMessage"
        /\ DOMAIN outbound[1].kwargs = {"channel", "text"}
        /\ outbound[1].kwargs["channel"] = args["channel"]
        /\ outbound[1].kwargs["text"] = args["text"][1]
        /\ (pc = "done" /\ remote.kind = "payload") =>
              /\ tool_result.kind = "returned"
              /\ tool_result.value["success"] = TRUE
              /\ tool_result.value["channel"] = GetOpt(remote.payload, "channel")
              /\ tool_result.value["timestamp"] = GetOpt(remote.payload, "ts")

\* the message was posted and the result names the channel and the timestamp
C16_Witness ==
    /\ OnlyChannelAndText
    /\ pc = "done"
    /\ remote.kind = "payload"
    /\ tool_result.kind = "returned"
    /\ tool_result.value["channel"] = Some(<<"C123">>)
    /\ tool_result.value["timestamp"] = Some(<<"1700000000.0001">>)

\* the media type is application/pdf
IsPdfType(content_type) == content_type = <<"application", "/", "pdf">>

\* the media type is image/*
IsImageType(content_type) ==
    Len(content_type) >= 2 /\ content_type[1] = "image" /\ content_type[2] = "/"

\* the name ends with the extension
HasExtension(name, ext) ==
    Len(name) >= 2 /\ name[Len(name) - 1] = "." /\ name[Len(name)] = ext

\* C17: for a URL-sourced upload the outbound filename is the explicit
\* filename when one is given; otherwise the final segment of the URL path
\* when that is not empty and has an extension; otherwise the content-type
\* fallback: a .pdf name for PDF, a .jpg name for image/*, and a generic name
\* (neither of the two) for anything else.
C17_UrlFilename ==
    (UrlUpload /\ Len(outbound) = 2) =>
        LET sent == outbound[2].kwargs["filename"]
            segment == basename(urlparse(upload.source).path)
        IN  IF Truthy(args["filename"]) THEN sent = args["filename"][1]
            ELSE IF segment # << >> /\ Contains(segment, ".") THEN sent = segment
            ELSE IF IsPdfType(upload.content_type) THEN HasExtension(sent, "pdf")
            ELSE IF IsImageType(upload.content_type) THEN HasExtension(sent, "jpg")
            ELSE ~HasExtension(sent, "pdf") /\ ~HasExtension(sent, "jpg")

\* the texts an upload branch puts before str(e) in its except clauses
BranchMessages(branch) ==
    IF branch = "url"
    THEN {"Failed to download file from URL: ", "Upload failed: "}
    ELSE {BranchMessage(branch)[1]}

\* a remote or network failure has occurred in the upload that has ended
UploadFailed ==
    /\ op = "upload_file"
    /\ pc = "done"
    /\ upload.branch \in {"url", "path", "text"}
    /\ \/ upload.fetch \in {"HTTPError", "Exception"}
       \/ remote.kind \in {"SlackApiError", "Exception"}

\* the envelope's error begins with the text
ErrorBeginsWith(texts) ==
    /\ ~IsNone(result.env.error)
    /\ result.env.error[1] # << >>
    /\ result.env.error[1][1] \in texts

\* C18: every remote or network failure that occurs in an upload
\* branch (failed fetch, rejected or failed Slack upload) is reported as a
\* failed envelope whose error carries that branch's own message.
C18_BranchMessageOnEveryFailure ==
    UploadFailed =>
        /\ result.kind = "returned"
        /\ ~result.env.ok
        /\ ErrorBeginsWith(BranchMessages(upload.branch))

\* a URL-sourced upload through the tool function whose fetch succeeded and
\* whose Slack upload was rejected
FetchedThenRejected ==
    /\ tool = "upload_slack_file"
    /\ UrlUpload
    /\ upload.fetch = "ok"
    /\ remote.kind = "SlackApiError"

\* C19: in a URL-sourced upload where the fetch succeeds and the Slack upload
\* is rejected, the invocation has ended with exactly one fetch and one upload
\* call made and with the tool function raising its one ValueError; the only
\* step that follows is the end of the invocation, so no further call (retry
\* or compensating action) is made.
C19_SingleTerminalFailure ==
    /\ [](FetchedThenRejected =>
            /\ pc = "done"
            /\ pending = NoCall
            /\ Len(outbound) = 2
            /\ outbound[1] = FetchCall(upload.source)
            /\ outbound[2].method = "files_upload_v2"
            /\ tool_result.kind = "raised"
            /\ tool_result.exc = "ValueError"
            /\ tool_result.msg # << >>
            /\ tool_result.msg[1] = "Failed to upload file: ")
    /\ [][FetchedThenRejected =>
            /\ pc' = "idle"
            /\ outbound' = << >>
            /\ pending' = NoCall]_vars

\* the fetch succeeded, Slack rejected the upload with an error code and the
\* tool function raised
C19_Witness ==
    /\ FetchedThenRejected
    /\ pc = "done"
    /\ Len(outbound) = 2
    /\ remote.decoded
    /\ tool_result.kind = "raised"

\* the call a tool function makes when it runs alone with arguments a
AloneCall(t, a) ==
    CASE t = "get_slack_dnd_info" -> OutCall("dnd_info", get_dnd_info_kwargs(a))
      [] t = "invite_to_slack_channel" ->
            OutCall("conversations_invite",
                    ("channel" :> a.channel) @@ ("users" :> JoinComma(a.users)))
      [] OTHER -> NoCall

\* frame f is what its invocation alone makes of its own arguments and of the
\* remote response it received
Alone(f) ==
    LET f_pc == f[1]
        f_args == f[3]
        f_pending == f[4]
        f_outbound == f[5]
        f_remote == f[6]
        f_result == f[7]
        f_tool == f[9]
        f_tool_result == f[10]
    IN  IF f_pc = "idle" THEN f = IdleFrame
        ELSE /\ f_outbound = << AloneCall(f_tool, f_args) >>
             /\ f_pc = "calling" =>
                   /\ f_pending = AloneCall(f_tool, f_args)
                   /\ f_remote = NoOutcome
                   /\ f_result = NoResult
                   /\ f_tool_result = NoToolResult
             /\ f_pc = "done" =>
                   /\ f_pending = NoCall
                   /\ f_result = SafeApiCallResult(f_remote)
                   /\ f_tool_result = FacadeResult(f_tool, f_result)

\* C20: no operation writes adapter state after construction (the credential
\* is never reassigned), a step changes the locals of the running invocation
\* only, and so in every interleaving of concurrent tool invocations each
\* invocation's outbound parameters and result are those it produces alone
\* from its own arguments and its own remote response.
C20_ConcurrentInvocationsIndependent ==
    /\ [][bot_token' = bot_token]_vars
    /\ [][\A i \in Tasks :
            FrameOf(i)' # FrameOf(i) => (i = current /\ current' = current)]_vars
    /\ [](\A i \in Tasks : Alone(FrameOf(i)))

\* two invocations have ended on the same adapter, one while the other was
\* suspended, with different calls and different remote responses
C20_Witness ==
    /\ current = 2
    /\ pc = "done"
    /\ tool = "invite_to_slack_channel"
    /\ remote.kind = "payload"
    /\ suspended[1][1] = "done"
    /\ suspended[1][9] = "get_slack_dnd_info"
    /\ suspended[1][6].kind = "SlackApiError"

\* the final segment of a path: what str.split('/') ends with
FinalSegment(p) == SplitSlash(p)[Len(SplitSlash(p))]

\* an upload whose source is not a URL and names an entry of the filesystem
ExistingPathUpload ==
    /\ op = "upload_file"
    /\ pc # "idle"
    /\ ~_is_url(upload.source)
    /\ os_stat(fs, upload.source) \in {"file", "dir"}

C22_InvocationCompletes ==
    (FrameOf(Observed)[1] = "calling")
        ~> (/\ FrameOf(Observed)[1] = "done"
            /\ FrameOf(Observed)[10].kind \in {"returned", "raised"})

\* the observed invocation has completed while another invocation's call is
\* still outstanding
C22_Witness ==
    /\ current = Observed
    /\ pc = "done"
    /\ tool_result.kind \in {"returned", "raised"}
    /\ \E j \in Tasks : suspended[j][1] = "calling"

\* C23: the branch an upload call takes is derived from its file_source
\* string and from the filesystem as it is at that call, whatever calls and
\* filesystem changes came before: a string that is not a URL goes through
\* the text branch while no entry of that name exists (the name as pathlib
\* reads it: '' is the current directory) and through the path branch once
\* the file has been created.
C23_ClassificationRederived ==
    (op = "upload_file" /\ pc # "idle") =>
        /\ upload.branch \in { Classify(fs, upload.source, reraise) : reraise \in BOOLEAN }
        /\ (~_is_url(upload.source) /\ os_stat(fs, PurePath(upload.source)) = "ENOENT") =>
              upload.branch = "text"
        /\ (~_is_url(upload.source) /\ os_stat(fs, upload.source) = "file") =>
              upload.branch = "path"

\* a string takes the path branch after its file was created (the filesystem
\* was empty at construction, when the same string is text)
C23_Witness ==
    /\ op = "upload_file"
    /\ pc = "done"
    /\ upload.source = <<"a">>
    /\ Key(upload.source) \in fs.files
    /\ Classify(EmptyFs, upload.source, TRUE) = "text"
    /\ upload.branch = "path"

\* C24: upload_file returns an envelope for every file_source, filename and
\* environment: no exception escapes it, whether raised while classifying the
\* source, while fetching or while uploading.
C24_UploadNeverRaises ==
    (op = "upload_file" /\ pc = "done") => result.kind = "returned"

\* C25: in the URL branch the Slack upload call is issued only after the
\* HTTP fetch has completed successfully; when the fetch fails with a network
\* error or a non-success status (an httpx.HTTPError) the invocation has
\* ended with the fetch as its only call and with a failed envelope whose
\* error begins 'Failed to download file from URL'.
C25_UploadOnlyAfterFetch ==
    UrlUpload =>
        /\ (\E i \in 1..Len(outbound) : outbound[i].method = "files_upload_v2") =>
              /\ upload.fetch = "ok"
              /\ Len(outbound) = 2
              /\ outbound[1] = FetchCall(upload.source)
        /\ upload.fetch \in {"HTTPError", "Exception"} => outbound = << FetchCall(upload.source) >>
        /\ upload.fetch = "HTTPError" =>
              /\ pc = "done"
              /\ result.kind = "returned"
              /\ ~result.env.ok
              /\ ErrorBeginsWith({"Failed to download file from URL: "})

\* the fetch of a URL upload failed and the invocation ended without an
\* upload call
C25_Witness ==
    /\ UrlUpload
    /\ upload.fetch = "HTTPError"
    /\ pc = "done"
    /\ Len(outbound) = 1
    /\ ~result.env.ok

\* the title an upload branch builds when the caller gave none: from the URL
\* in the URL branch, from the filename sent in the other two
DefaultTitle(call) ==
    CASE upload.branch = "url" -> <<"File from ">> \o upload.source
      [] upload.branch = "path" -> <<"File: ">> \o call.kwargs["filename"]
      [] OTHER -> <<"Text file: ">> \o call.kwargs["filename"]

\* C26: every outbound files_upload_v2 call of the three upload branches
\* carries a title key: the caller's title when one is given (None and ''
\* are none), otherwise the branch's default built from the URL or from the
\* filename.
C26_UploadCarriesTitle ==
    op = "upload_file" =>
        \A i \in 1..Len(outbound) :
            outbound[i].method = "files_upload_v2" =>
                /\ "title" \in DOMAIN outbound[i].kwargs
                /\ outbound[i].kwargs["title"] =
                      IF upload.title # None /\ upload.title[1] # << >>
                      THEN upload.title[1]
                      ELSE DefaultTitle(outbound[i])

\* an upload from a path went out with the default title, the caller having
\* given none
C26_Witness ==
    /\ op = "upload_file"
    /\ upload.branch = "path"
    /\ upload.title = None
    /\ Len(outbound) = 1
    /\ outbound[1].kwargs["title"] = <<"File: ">> \o outbound[1].kwargs["filename"]

\* C27: in the MCP server no tool invocation is served while the Slack tools
\* object is uninitialized: it is constructed once, at start-up, before any
\* tool can be called; a missing or malformed SLACK_BOT_TOKEN aborts start-up;
\* and no tool raises 'Slack tools not initialized'.
C27_NeverServedUninitialized ==
    /\ [](/\ tool # "none" => (startup = "ok" /\ ~IsNone(bot_token))
          /\ (startup # "pending"
                /\ (IsNone(env_token) \/ ~StartsWith(env_token[1], TokenPrefix))) =>
                (startup \notin {"pending", "ok"} /\ IsNone(bot_token))
          /\ ~(tool_result.kind = "raised"
                /\ tool_result.msg = <<"Slack tools not initialized">>))
    /\ [][bot_token' # bot_token => (startup = "pending" /\ startup' = "ok")]_vars

\* a tool of the started server has been served
C27_Witness ==
    /\ startup = "ok"
    /\ tool = "test_slack_auth"
    /\ pc = "done"
    /\ remote.kind = "payload"
    /\ tool_result.kind = "returned"

\* the caller gave no text, no blocks and no attachments (None or empty)
EmptyBody ==
    /\ ~Truthy(args["text"])
    /\ ~Truthy(args["blocks"])
    /\ ~Truthy(args["attachments"])

\* C28: update_slack_message and schedule_slack_message validate nothing
\* locally: every invocation, one without text, blocks and attachments
\* included, issues exactly one remote call (chat_update or
\* chat_scheduleMessage), which then carries the required keys only; only
\* send_slack_message rejects an empty body without a call.
C28_UpdateAndScheduleUnchecked ==
    /\ tool \in {"update_slack_message", "schedule_slack_message"} =>
          /\ Len(outbound) = 1
          /\ outbound[1].method =
                (IF tool = "update_slack_message" THEN "chat_update" ELSE "chat_scheduleMessage")
          /\ pc = "done" => remote.kind # "none"
          /\ EmptyBody =>
                DOMAIN outbound[1].kwargs =
                    (IF tool = "update_slack_message" THEN {"channel", "ts"}
                     ELSE {"channel", "post_at"})
    /\ (tool = "send_slack_message" /\ EmptyBody) =>
          /\ pc = "done"
          /\ outbound = << >>
          /\ tool_result.kind = "raised"

\* a message was scheduled without text, blocks and attachments, and the
\* call went out
C28_Witness ==
    /\ tool = "schedule_slack_message"
    /\ EmptyBody
    /\ pc = "done"
    /\ Len(outbound) = 1
    /\ DOMAIN outbound[1].kwargs = {"channel", "post_at"}

\* what send_slack_message raises when neither text nor blocks is provided
RejectedLocally ==
    /\ pc = "done"
    /\ outbound = << >>
    /\ tool_result = ToolRaised("ValueError", <<"Either text or blocks must be provided">>)

\* C29: send_slack_message treats empty values as absent: with text '' and
\* non-empty blocks the invocation passes validation and its one call carries
\* blocks and no text key; with text '' and an empty blocks list it is
\* rejected locally, exactly as when both are left out.
C29_SendEmptyIsAbsent ==
    tool = "send_slack_message" =>
        /\ (args["text"] = Some(<< >>) /\ Truthy(args["blocks"])) =>
              /\ Len(outbound) = 1
              /\ outbound[1].method = "chat_postMessage"
              /\ "text" \notin DOMAIN outbound[1].kwargs
              /\ "blocks" \in DOMAIN outbound[1].kwargs
              /\ outbound[1].kwargs["blocks"] = args["blocks"][1]
        /\ (args["text"] = Some(<< >>) /\ args["blocks"] = Some(<< >>)) => RejectedLocally
        /\ (args["text"] = None /\ args["blocks"] = None) => RejectedLocally

\* a message with text '' and blocks has gone out
C29_Witness ==
    /\ tool = "send_slack_message"
    /\ args["text"] = Some(<< >>)
    /\ Truthy(args["blocks"])
    /\ pc = "done"
    /\ Len(outbound) = 1
    /\ remote.kind = "payload"

\* C30: when _safe_api_call is given an operation name the remote client
\* does not provide, the failed lookup is captured: the call has ended with
\* the envelope {ok: false, data: {}, error: a non-empty string} and no
\* outbound call was made.
C30_UnknownOperationCaptured ==
    (DirectCall /\ args["method_name"] \notin ClientMethods) =>
        /\ pc = "done"
        /\ outbound = << >>
        /\ remote = NoOutcome
        /\ result.kind = "returned"
        /\ result.env.ok = FALSE
        /\ result.env.data = EmptyMap
        /\ Truthy(result.env.error)

\* _safe_api_call was given a name the client lacks and returned the
\* envelope with the AttributeError's text
C30_Witness ==
    /\ DirectCall
    /\ args["method_name"] = UnknownMethod
    /\ pc = "done"
    /\ result.env.error = Some(AttributeErrorText \o <<UnknownMethod>>)

====
